---- MODULE Spec2Model ----
(***************************************************************************)
(* Model of reversefold.util: the locked pidfile of the daemonizer         *)
(* (reversefold/util/daemonize.py), the file followers                     *)
(* (reversefold/util/follow.py), the line queue with its rate limiter      *)
(* (scripts/tail.py, reversefold/util/__init__.py) and the output pumps    *)
(* with their log sink (reversefold/util/multiproc.py, daemonize.py), the  *)
(* process-tree signalling of reversefold/util/proc.py, and one run of     *)
(* daemonize.py's main with its main and app pidfiles.                     *)
(*                                                                         *)
(* The pidfile part is modelled one system call per step, so that every    *)
(* interleaving of several daemonizer processes on one pidfile path is     *)
(* explored.  The sidecar lock is fasteners.InterProcessLock: open(path,   *)
(* 'a') followed by a blocking exclusive lock on the opened inode.         *)
(* Each component has its own specification; the variables of the other    *)
(* components stay at their initial values in it.                          *)
(***************************************************************************)
EXTENDS Integers, Sequences, FiniteSets, TLC

\* ------------------------------------------------------------------ bounds
NumProcs == 3
\* longest content a followed file reaches
MaxFile == 4
\* most bytes appended at the path after a truncation or rotation
MaxFresh == 2
\* largest chunk_size a byte follower is constructed with
MaxChunk == 2
\* largest rate_limit and rate_period (in clock ticks) a LineQueue is given
MaxLimit == 2
MaxPeriod == 2
\* last tick of the clock, and most lines pushed to a LineQueue
MaxTime == 4
MaxPush == 4
\* most bytes one read of a raw pump returns (65536 in the code, scaled down),
\* most bytes a pipe holds before a write blocks, and most bytes a child writes
MaxRead == 1
PipeCap == 2
MaxWrite == 3
\* most processes that ever exist in the process table given to proc.py
MaxPid == 3
\* rotations of the log files in one run
MaxRot == 1

\* ------------------------------------------------------------- pid helpers
Procs == {10 * i : i \in 1..NumProcs}

\* pid of the command launched by daemonizer p (subprocess.Popen(...).pid)
ChildPid(p) == p + 1

RECURSIVE str(_)
\* Python str(pid) for a positive pid: its decimal digits, most significant first
str(n) == IF n < 10 THEN <<n>> ELSE Append(str(n \div 10), n % 10)

RECURSIVE int(_)
\* Python int(text) on what the pidfile holds: -1 stands for ValueError
\* (empty text); otherwise the number the digits denote
int(s) == IF s = <<>> THEN -1
          ELSE IF Len(s) = 1 THEN s[1]
          ELSE 10 * int(SubSeq(s, 1, Len(s) - 1)) + s[Len(s)]

\* ------------------------------------------------------------------- state
VARIABLES
  pc,          \* pc[p]: where daemonizer p is in main / acquire / release
  pidArg,      \* pidArg[p]: the pid handed to acquire (0 before the call)
  childAlive,  \* childAlive[p]: the command launched by p is running
  lkPath,      \* inode linked at pidfile_lock_path, 0 when the file is absent
  lkIno,       \* lkIno[p]: inode p's InterProcessLock has open, 0 when closed
  locked,      \* locked[p]: pidfile_lock.acquired
  pidPath,     \* creator of the inode linked at pidfile_path, 0 when absent
  pidText,     \* content of the file linked at pidfile_path, <<>> when absent
  chk,         \* chk[p]: outcome of p's stale check in acquire
  contended,   \* contended[p]: p started while another process held the pidfile
  soloProc,    \* process that ran without interleaving since it started, or 0
  freeStart    \* the soloProc started with neither file on disk

pidVars == <<pc, pidArg, childAlive, lkPath, lkIno, locked, pidPath, pidText,
             chk, contended, soloProc, freeStart>>

\* reversefold/util/follow.py: one follower on one file
VARIABLES
  fmode,       \* "line": FilenameLineFollower, "byte": FilenameFollower
  tail_only,   \* constructor argument tail_only
  chunk_size,  \* constructor argument chunk_size (byte mode)
  fpc,         \* "closed" before __enter__, "read", "sleep", "stopped"
  file,        \* content of the file the follower has open
  pos,         \* read offset of the follower in that file
  buf,         \* __iter__'s buf: the fragments of the line being assembled
  out,         \* the items yielded so far
  finish,      \* the finish attribute
  disturbed,   \* "no", "truncated" (cut to length 0) or "rotated" (path replaced)
  newFile,     \* content of the file now at the path, once rotated
  quiet,       \* the last read found nothing and nothing was written since
  lateRead     \* a read returned data while finish was already set

folVars == <<fmode, tail_only, chunk_size, fpc, file, pos, buf, out, finish,
             disturbed, newFile, quiet, lateRead>>

\* scripts/tail.py LineQueue with its consumer loop, and rate_limit_gen
VARIABLES
  limited,     \* rate_limit and rate_period are both configured (not None)
  rate_limit,  \* LineQueue.rate_limit
  rate_period, \* LineQueue.rate_period, in clock ticks
  now,         \* datetime.now(), in clock ticks
  queue,       \* LineQueue.queue: the lines pushed and not yet taken
  pushed,      \* number of lines pushed so far; line i is the i-th one pushed
  stop,        \* the stop event is set
  lpc,         \* consumer loop: "check" (while not stop), "get", "done"
  start,       \* rate_limit_gen's start
  count,       \* rate_limit_gen's count
  win,         \* number of times rate_limit_gen has restarted its window
  arr,         \* values rate_limit_gen has taken from gen: [v, t, w]
  fwd,         \* what the generator has yielded to the consumer: [v, t, w]
  rate_limit_line, \* QueueChain.rate_limit_line: <<>> for None, else <<the line>>
  out_queue    \* what QueueChain.run has handed to out_queue.handle_line

qVars == <<limited, rate_limit, rate_period, now, queue, pushed, stop, lpc,
           start, count, win, arr, fwd, rate_limit_line, out_queue>>

\* a child process, its output pipes, one pump per pipe (multiproc.Pipe into
\* a log sink in daemonize.main, multiproc.LinePipe in run_subproc) and the
\* supervisor that waits for the child
VARIABLES
  pmode,       \* "raw": Pipe.flow into logger.info, "line": LinePipe.flow
  merged,      \* stderr=subprocess.STDOUT: the child has one output pipe
  log_format,  \* "plain": %(message)s, "stamped": %(asctime)s %(message)s
  pipe,        \* pipe[s]: bytes written to the pipe and not yet read
  rbuf,        \* rbuf[s]: bytes the file object has read ahead for readline
  written,     \* written[s]: every byte the child has written to stream s
  calls,       \* calls[s]: the arguments of the pump's output_func calls
  logf,        \* logf[s]: content of the log behind the sink: of the files
               \* rotated away, oldest first, and then of the file at the path
  ppc,         \* ppc[s]: pump thread "run", "done" (flow returned) or "off"
  cpc,         \* child: "run", "writing" (in a write call) or "exited"
  pending,     \* <<s, c>>: the write the child is in, <<>> when in none
  nwritten,    \* number of bytes the child has written
  spc,         \* supervisor: "wait" for the child, "join" the pumps, "done"
               \* (main is past the join), "exited" (the process has ended)
  log_handler, \* --log-handler: "watched" or "timed"
  cut,         \* cut[s]: where in logf[s] the files end that were rotated away
  capture_output, \* run_subproc's capture_output
  pbuf         \* pbuf[s]: LinePipe.buf, the list run_subproc returns for s

subVars == <<pmode, merged, log_format, pipe, rbuf, written, calls, logf, ppc,
             cpc, pending, nwritten, spc, log_handler, cut, capture_output, pbuf>>

\* reversefold/util/proc.py on a process table that changes under it
VARIABLES
  alive,       \* pids of the processes that exist
  ppid,        \* ppid[p]: parent of p, 0 for none (or init, once orphaned)
  nextPid,     \* the pid the next new process gets
  denied,      \* pids whose signalling raises an error other than NoSuchProcess
  op,          \* the call made: "tree", "signalling" or "dead"
  recursive,   \* argument recursive of signalling / dead
  tpid,        \* proc.pid of the proc object handed in
  asProc,      \* what the with block was given by `as`, "" before it is entered
  kpc,         \* where the call is
  todo,        \* signals of the context managers still to leave, innermost first
  procs,       \* signalling's procs
  pset,        \* dead's shared _procs set
  idx,         \* position of _signal_processes in procs
  root,        \* get_process_tree's proc (a psutil.Process), 0 when none
  tree,        \* what get_process_tree returned last
  err,         \* exception on its way to the caller: "none", "Body", ...
  bodyRaised,  \* the body of the with block raised
  existed,     \* at the call the pid named a process, or had yet to be given out
  snaps,       \* per phase left: [sig, ran, fresh, used]
  klog         \* per process _signal_processes looked at: [sig, pid, res]

kVars == <<alive, ppid, nextPid, denied, op, recursive, tpid, asProc, kpc, todo,
           procs, pset, idx, root, tree, err, bodyRaised, existed, snaps, klog>>

\* daemonize.py main: one run of the daemonizer with its two pidfiles
VARIABLES
  has_pidfile, \* args['--pidfile'] is given
  has_applock, \* args['--app-pidfile'] is given
  fault,       \* what goes wrong in this run, "none" when nothing does
  mpc,         \* where main is
  msub,        \* where LockedPidFile.acquire / release is, "none" outside them
  mobj,        \* the LockedPidFile being acquired or released: "main" or "app"
  lockobj,     \* lockobj[f]: self.pidfile_lock: "None", "idle" or "acquired"
  fileobj,     \* fileobj[f]: self.pidfile: "None", "open" or "closed"
  pidOnDisk,   \* pidOnDisk[f]: the file at pidfile_path: "absent", "stale", "own"
  lkOnDisk,    \* lkOnDisk[f]: a file exists at pidfile_lock_path
  foreign,     \* another process holds the lock of the app pidfile
  cmd,         \* the launched command: "none", "running" or "exited"
  mexc,        \* the exception main is leaving with, "none" when there is none
  released,    \* the pidfiles whose lock was released, in that order
  sinks        \* the streams whose log handler has been made (its file opened)

mVars == <<has_pidfile, has_applock, fault, mpc, msub, mobj, lockobj, fileobj,
           pidOnDisk, lkOnDisk, foreign, cmd, mexc, released, sinks>>

vars == <<pidVars, folVars, qVars, subVars, kVars, mVars>>

\* what the actions of one component leave alone
nonPidVars == <<folVars, qVars, subVars, kVars, mVars>>
nonFolVars == <<pidVars, qVars, subVars, kVars, mVars>>
nonQVars == <<pidVars, folVars, subVars, kVars, mVars>>
nonSubVars == <<pidVars, folVars, qVars, kVars, mVars>>
nonKVars == <<pidVars, folVars, qVars, subVars, mVars>>
nonMVars == <<pidVars, folVars, qVars, subVars, kVars>>

LockInodes == 1..(NumProcs + 1)

\* psutil.pids(): every running daemonizer and every running command
Running(p) == pc[p] \notin {"idle", "exit0", "exit1", "killed"}
pids == {p \in Procs : Running(p)} \cup {ChildPid(p) : p \in {q \in Procs : childAlive[q]}}

\* acquire returned True and release has not been called
Holding(p) == pc[p] \in {"held", "running"}

\* the exclusive lock on inode i is free for p
LockFree(p, i) == \A q \in Procs \ {p} : ~(locked[q] /\ lkIno[q] = i)

InodeInUse(i) == lkPath = i \/ \E q \in Procs : lkIno[q] = i
FreshInode == CHOOSE i \in LockInodes : ~InodeInUse(i) /\ \A j \in LockInodes : j < i => InodeInUse(j)

\* bookkeeping of which process has run alone since its start
Step(p) ==
  /\ soloProc' = (IF soloProc = p THEN p ELSE 0)
  /\ freeStart' = (soloProc = p /\ freeStart)

\* what acquire knew (its pid argument, the outcome of the stale check) is
\* local to the call and the run that follows it: it is gone once release
\* begins or the process ends
Forget(p) ==
  /\ pidArg' = [pidArg EXCEPT ![p] = 0]
  /\ chk' = [chk EXCEPT ![p] = "none"]
  /\ contended' = [contended EXCEPT ![p] = FALSE]

PidInit ==
  /\ pc = [p \in Procs |-> "idle"]
  /\ pidArg = [p \in Procs |-> 0]
  /\ childAlive = [p \in Procs |-> FALSE]
  /\ lkPath = 0
  /\ lkIno = [p \in Procs |-> 0]
  /\ locked = [p \in Procs |-> FALSE]
  /\ pidPath = 0
  /\ pidText = <<>>
  /\ chk = [p \in Procs |-> "none"]
  /\ contended = [p \in Procs |-> FALSE]
  /\ soloProc = 0
  /\ freeStart = FALSE

\* ------------------------------------------------- LockedPidFile.acquire
\* A daemonizer starts; the OS hands out pids in increasing order, so p starts
\* after every process with a smaller pid.
\* main enters acquire: with --pidfile through DaemonContext.open (pid is
\* None, so os.getpid()), with --app-pidfile right after Popen (proc.pid).
\* The first thing acquire does is InterProcessLock._do_open: open(path, 'a'),
\* which creates the sidecar file when it is absent.
acquire_open(p, app) ==
  /\ pc[p] = "idle"
  /\ \A q \in Procs : q < p => pc[q] # "idle"
  /\ pidArg' = [pidArg EXCEPT ![p] = IF app THEN ChildPid(p) ELSE p]
  /\ childAlive' = [childAlive EXCEPT ![p] = app]
  /\ IF lkPath = 0
       THEN /\ lkPath' = FreshInode
            /\ lkIno' = [lkIno EXCEPT ![p] = FreshInode]
       ELSE /\ lkIno' = [lkIno EXCEPT ![p] = lkPath]
            /\ UNCHANGED lkPath
  /\ contended' = [contended EXCEPT ![p] = \E q \in Procs : Holding(q)]
  /\ pc' = [pc EXCEPT ![p] = "a_lock"]
  /\ soloProc' = p
  /\ freeStart' = (lkPath = 0 /\ pidPath = 0)
  /\ UNCHANGED <<locked, pidPath, pidText, chk>>
  /\ UNCHANGED nonPidVars

\* pidfile_lock.acquire(): blocking, so the step waits until the lock on the
\* opened inode is free and then always reports True
acquire_lock(p) ==
  /\ pc[p] = "a_lock"
  /\ LockFree(p, lkIno[p])
  /\ locked' = [locked EXCEPT ![p] = TRUE]
  /\ pc' = [pc EXCEPT ![p] = "a_exists"]
  /\ Step(p)
  /\ UNCHANGED <<pidArg, childAlive, lkPath, lkIno, pidPath, pidText, chk, contended>>
  /\ UNCHANGED nonPidVars

\* os.path.exists(self.pidfile_path)
acquire_exists(p) ==
  /\ pc[p] = "a_exists"
  /\ pc' = [pc EXCEPT ![p] = IF pidPath # 0 THEN "a_check" ELSE "a_create"]
  /\ Step(p)
  /\ UNCHANGED <<pidArg, childAlive, lkPath, lkIno, locked, pidPath, pidText, chk, contended>>
  /\ UNCHANGED nonPidVars

\* outcome of the try block: open+read, int(), membership in psutil.pids().
\* Every outcome, the raised Error included, is caught by `except Exception`
\* and control falls through to the unlink.
StaleCheck(text) ==
  IF int(text) = -1 THEN "invalid"
  ELSE IF int(text) \in pids THEN "alive"
  ELSE "stale"

\* mutant: the ValueError of int() on a pidfile without a pid is not caught
acquire_check_uncaught(p) ==
  /\ pc[p] = "a_check"
  /\ chk' = [chk EXCEPT ![p] = IF pidPath = 0 THEN "gone" ELSE StaleCheck(pidText)]
  /\ pc' = [pc EXCEPT ![p] = IF pidPath # 0 /\ StaleCheck(pidText) = "invalid"
                               THEN "failed" ELSE "a_unlink"]
  /\ Step(p)
  /\ UNCHANGED <<pidArg, childAlive, lkPath, lkIno, locked, pidPath, pidText, contended>>
  /\ UNCHANGED nonPidVars

acquire_check(p) ==
  /\ pc[p] = "a_check"
  /\ chk' = [chk EXCEPT ![p] = IF pidPath = 0 THEN "gone" ELSE StaleCheck(pidText)]
  /\ pc' = [pc EXCEPT ![p] = "a_unlink"]
  /\ Step(p)
  /\ UNCHANGED <<pidArg, childAlive, lkPath, lkIno, locked, pidPath, pidText, contended>>
  /\ UNCHANGED nonPidVars

\* mutant: the unlink of the old pidfile is left out
acquire_unlink_skipped(p) ==
  /\ pc[p] = "a_unlink"
  /\ pc' = [pc EXCEPT ![p] = "a_create"]
  /\ Step(p)
  /\ UNCHANGED <<pidArg, childAlive, lkPath, lkIno, locked, pidPath, pidText, chk, contended>>
  /\ UNCHANGED nonPidVars

\* os.unlink(self.pidfile_path); OSError when the file is no longer there
acquire_unlink(p) ==
  /\ pc[p] = "a_unlink"
  /\ IF pidPath = 0
       THEN /\ pc' = [pc EXCEPT ![p] = "failed"]
            /\ UNCHANGED <<pidPath, pidText>>
       ELSE /\ pidPath' = 0
            /\ pidText' = <<>>
            /\ pc' = [pc EXCEPT ![p] = "a_create"]
  /\ Step(p)
  /\ UNCHANGED <<pidArg, childAlive, lkPath, lkIno, locked, chk, contended>>
  /\ UNCHANGED nonPidVars

\* os.open(path, O_CREAT | O_EXCL | O_WRONLY, 0o600); OSError when it exists
acquire_create(p) ==
  /\ pc[p] = "a_create"
  /\ IF pidPath # 0
       THEN /\ pc' = [pc EXCEPT ![p] = "failed"]
            /\ UNCHANGED <<pidPath, pidText>>
       ELSE /\ pidPath' = p
            /\ pidText' = <<>>
            /\ pc' = [pc EXCEPT ![p] = "a_write"]
  /\ Step(p)
  /\ UNCHANGED <<pidArg, childAlive, lkPath, lkIno, locked, chk, contended>>
  /\ UNCHANGED nonPidVars

\* self.pidfile.write(str(pid)); self.pidfile.flush(); return True.
\* The write goes to the inode p created: when another process has unlinked it
\* in between, nothing at pidfile_path changes.
acquire_write(p) ==
  /\ pc[p] = "a_write"
  /\ pidText' = (IF pidPath = p THEN pidText \o str(pidArg[p]) ELSE pidText)
  /\ pc' = [pc EXCEPT ![p] = "held"]
  /\ Step(p)
  /\ UNCHANGED <<pidArg, childAlive, lkPath, lkIno, locked, pidPath, chk, contended>>
  /\ UNCHANGED nonPidVars

\* ------------------------------------------------------------ main, running
\* main between a successful acquire and the release: with --pidfile the
\* command is launched now (subprocess.Popen inside the DaemonContext), with
\* --app-pidfile it is already running and the pumps are started
main_run(p) ==
  /\ pc[p] = "held"
  /\ childAlive' = [childAlive EXCEPT ![p] = IF pidArg[p] = p THEN TRUE ELSE childAlive[p]]
  /\ pc' = [pc EXCEPT ![p] = "running"]
  /\ Step(p)
  /\ UNCHANGED <<pidArg, lkPath, lkIno, locked, pidPath, pidText, chk, contended>>
  /\ UNCHANGED nonPidVars

\* the launched command exits (also after its daemonizer was killed)
child_exit(p) ==
  /\ childAlive[p]
  /\ childAlive' = [childAlive EXCEPT ![p] = FALSE]
  /\ UNCHANGED <<pc, pidArg, lkPath, lkIno, locked, pidPath, pidText, chk, contended,
                 soloProc, freeStart>>
  /\ UNCHANGED nonPidVars

\* ------------------------------------------------- LockedPidFile.release
\* main reaches release once proc.returncode is set (the wait loop) and the
\* pump threads were joined; pidfile_lock.acquired is True; self.pidfile.close()
release_close(p) ==
  /\ pc[p] = "running"
  /\ ~childAlive[p]
  /\ pc' = [pc EXCEPT ![p] = "r_exists"]
  /\ Step(p)
  /\ Forget(p)
  /\ UNCHANGED <<childAlive, lkPath, lkIno, locked, pidPath, pidText>>
  /\ UNCHANGED nonPidVars

\* if os.path.exists(self.pidfile_path):
release_exists(p) ==
  /\ pc[p] = "r_exists"
  /\ pc' = [pc EXCEPT ![p] = IF pidPath # 0 THEN "r_unlink" ELSE "r_unlinklock"]
  /\ Step(p)
  /\ UNCHANGED <<pidArg, childAlive, lkPath, lkIno, locked, pidPath, pidText, chk, contended>>
  /\ UNCHANGED nonPidVars

\*     os.unlink(self.pidfile_path); OSError when it vanished in between
release_unlink(p) ==
  /\ pc[p] = "r_unlink"
  /\ IF pidPath = 0
       THEN /\ pc' = [pc EXCEPT ![p] = "failed"]
            /\ UNCHANGED <<pidPath, pidText>>
       ELSE /\ pidPath' = 0
            /\ pidText' = <<>>
            /\ pc' = [pc EXCEPT ![p] = "r_unlinklock"]
  /\ Step(p)
  /\ UNCHANGED <<pidArg, childAlive, lkPath, lkIno, locked, chk, contended>>
  /\ UNCHANGED nonPidVars

\* mutant: release forgets to remove the sidecar lock file
release_unlinklock_kept(p) ==
  /\ pc[p] = "r_unlinklock"
  /\ pc' = [pc EXCEPT ![p] = "r_unlock"]
  /\ Step(p)
  /\ UNCHANGED <<pidArg, childAlive, lkPath, lkIno, locked, pidPath, pidText, chk, contended>>
  /\ UNCHANGED nonPidVars

\* os.unlink(self.pidfile_lock_path); OSError when the sidecar file is absent
release_unlinklock(p) ==
  /\ pc[p] = "r_unlinklock"
  /\ IF lkPath = 0
       THEN /\ pc' = [pc EXCEPT ![p] = "failed"]
            /\ UNCHANGED lkPath
       ELSE /\ lkPath' = 0
            /\ pc' = [pc EXCEPT ![p] = "r_unlock"]
  /\ Step(p)
  /\ UNCHANGED <<pidArg, childAlive, lkIno, locked, pidPath, pidText, chk, contended>>
  /\ UNCHANGED nonPidVars

\* self.pidfile_lock.release() (unlock and close the sidecar file), then
\* main's sys.exit(): status 0
release_unlock(p) ==
  /\ pc[p] = "r_unlock"
  /\ locked' = [locked EXCEPT ![p] = FALSE]
  /\ lkIno' = [lkIno EXCEPT ![p] = 0]
  /\ pc' = [pc EXCEPT ![p] = "exit0"]
  /\ Step(p)
  /\ UNCHANGED <<pidArg, childAlive, lkPath, pidPath, pidText, chk, contended>>
  /\ UNCHANGED nonPidVars

\* ------------------------------------------------------ process termination
\* an exception left acquire or release: it propagates out of main and the
\* interpreter exits with status 1; the OS closes the sidecar file, which
\* drops the lock, and leaves the files on disk as they are
exit_failed(p) ==
  /\ pc[p] = "failed"
  /\ locked' = [locked EXCEPT ![p] = FALSE]
  /\ lkIno' = [lkIno EXCEPT ![p] = 0]
  /\ pc' = [pc EXCEPT ![p] = "exit1"]
  /\ Step(p)
  /\ Forget(p)
  /\ UNCHANGED <<childAlive, lkPath, pidPath, pidText>>
  /\ UNCHANGED nonPidVars

\* the daemonizer is killed (SIGKILL, power loss) anywhere after its start:
\* no cleanup runs, the OS drops its lock, the launched command lives on
crash(p) ==
  /\ Running(p)
  /\ pc[p] # "failed"
  /\ locked' = [locked EXCEPT ![p] = FALSE]
  /\ lkIno' = [lkIno EXCEPT ![p] = 0]
  /\ pc' = [pc EXCEPT ![p] = "killed"]
  /\ Step(p)
  /\ Forget(p)
  /\ UNCHANGED <<childAlive, lkPath, pidPath, pidText>>
  /\ UNCHANGED nonPidVars

\* =================================================== follow.py: followers
Chars == {"a", "\n"}

\* a byte of the file: its character, and whether it was in the file when the
\* follower opened it
Byte(c, old) == [c |-> c, pre |-> old]

IsNewline(b) == b.c = "\n"

RECURSIVE join(_)
\* ''.join(buf)
join(frags) == IF frags = <<>> THEN <<>> ELSE Head(frags) \o join(Tail(frags))

\* the bytes from offset `from` to the end of f; nothing when the offset is at
\* or beyond the end (a read at or past EOF)
Unread(f, from) == IF from >= Len(f) THEN <<>> ELSE SubSeq(f, from + 1, Len(f))

\* index of the first newline of s, or 0
FirstNewline(s) ==
  IF \E i \in 1..Len(s) : IsNewline(s[i])
    THEN CHOOSE i \in 1..Len(s) : IsNewline(s[i]) /\ \A j \in 1..(i - 1) : ~IsNewline(s[j])
    ELSE 0

\* file.readline(): up to and including the next newline, or up to EOF when
\* the last line is not terminated yet; '' at EOF
readline(f, from) ==
  LET rest == Unread(f, from)
      n == FirstNewline(rest)
  IN IF n = 0 THEN rest ELSE SubSeq(rest, 1, n)

\* os.read(fd, chunk_size): at most chunk_size bytes; '' at EOF
read(f, from, size) ==
  LET rest == Unread(f, from)
  IN IF Len(rest) <= size THEN rest ELSE SubSeq(rest, 1, size)

\* the file that is at the followed path now
PathFile == IF disturbed = "rotated" THEN newFile ELSE file

FolInit ==
  /\ fmode \in {"line", "byte"}
  /\ tail_only \in BOOLEAN
  /\ chunk_size \in IF fmode = "byte" THEN 1..MaxChunk ELSE {0}
  /\ fpc = "closed"
  /\ file = <<>>
  /\ pos = 0
  /\ buf = <<>>
  /\ out = <<>>
  /\ finish = FALSE
  /\ disturbed = "no"
  /\ newFile = <<>>
  /\ quiet = FALSE
  /\ lateRead = FALSE

\* mutant: the seek to the end of the file is left out
enter_noseek ==
  /\ fpc = "closed"
  /\ fpc' = "read"
  /\ pos' = 0
  /\ UNCHANGED <<fmode, tail_only, chunk_size, file, buf, out, finish, disturbed,
                 newFile, quiet, lateRead>>
  /\ UNCHANGED nonFolVars

\* FilenameLineFollower.__enter__ / FilenameFollower.__enter__: open the file
\* and, with tail_only, seek to its end
enter ==
  /\ fpc = "closed"
  /\ fpc' = "read"
  /\ pos' = (IF tail_only THEN Len(file) ELSE 0)
  /\ UNCHANGED <<fmode, tail_only, chunk_size, file, buf, out, finish, disturbed,
                 newFile, quiet, lateRead>>
  /\ UNCHANGED nonFolVars

\* mutant: finish is looked at before the read, so the loop ends with data unread
line_next_eager ==
  /\ fmode = "line"
  /\ fpc = "read"
  /\ finish
  /\ fpc' = "stopped"
  /\ UNCHANGED <<fmode, tail_only, chunk_size, file, pos, buf, out, finish, disturbed,
                 newFile, quiet, lateRead>>
  /\ UNCHANGED nonFolVars

\* mutant: a fragment is yielded as soon as it is read, newline or not
line_next_unbuffered ==
  /\ fmode = "line"
  /\ fpc = "read"
  /\ LET new_line == readline(file, pos)
     IN IF new_line = <<>>
          THEN /\ fpc' = (IF finish THEN "stopped" ELSE "sleep")
               /\ quiet' = TRUE
               /\ UNCHANGED <<pos, buf, out, lateRead>>
          ELSE /\ pos' = pos + Len(new_line)
               /\ lateRead' = (lateRead \/ finish)
               /\ out' = Append(out, IF IsNewline(new_line[Len(new_line)])
                                       THEN SubSeq(new_line, 1, Len(new_line) - 1)
                                       ELSE new_line)
               /\ UNCHANGED <<fpc, quiet, buf>>
  /\ UNCHANGED <<fmode, tail_only, chunk_size, file, finish, disturbed, newFile>>
  /\ UNCHANGED nonFolVars

\* mutant: at the end of the iteration what the buffer holds is yielded too
line_next_flush ==
  /\ fmode = "line"
  /\ fpc = "read"
  /\ LET new_line == readline(file, pos)
     IN IF new_line = <<>>
          THEN /\ fpc' = (IF finish THEN "stopped" ELSE "sleep")
               /\ quiet' = TRUE
               /\ out' = (IF finish /\ buf # <<>> THEN Append(out, join(buf)) ELSE out)
               /\ buf' = (IF finish THEN <<>> ELSE buf)
               /\ UNCHANGED <<pos, lateRead>>
          ELSE /\ pos' = pos + Len(new_line)
               /\ lateRead' = (lateRead \/ finish)
               /\ LET buf1 == Append(buf, new_line)
                      last == buf1[Len(buf1)]
                  IN IF IsNewline(last[Len(last)])
                       THEN /\ out' = Append(out, SubSeq(join(buf1), 1, Len(join(buf1)) - 1))
                            /\ buf' = <<>>
                       ELSE /\ buf' = buf1
                            /\ UNCHANGED out
               /\ UNCHANGED <<fpc, quiet>>
  /\ UNCHANGED <<fmode, tail_only, chunk_size, file, finish, disturbed, newFile>>
  /\ UNCHANGED nonFolVars

\* FileLineFollower.__iter__, one turn of the while loop: readline; on '' stop
\* when finish is set, else sleep; otherwise buffer the fragment and, when it
\* ends with a newline, yield the joined buffer without that newline
line_next ==
  /\ fmode = "line"
  /\ fpc = "read"
  /\ LET new_line == readline(file, pos)
     IN IF new_line = <<>>
          THEN /\ fpc' = (IF finish THEN "stopped" ELSE "sleep")
               /\ quiet' = TRUE
               /\ UNCHANGED <<pos, buf, out, lateRead>>
          ELSE /\ pos' = pos + Len(new_line)
               /\ lateRead' = (lateRead \/ finish)
               /\ LET buf1 == Append(buf, new_line)
                      last == buf1[Len(buf1)]
                  IN IF IsNewline(last[Len(last)])
                       THEN /\ out' = Append(out, SubSeq(join(buf1), 1, Len(join(buf1)) - 1))
                            /\ buf' = <<>>
                       ELSE /\ buf' = buf1
                            /\ UNCHANGED out
               /\ UNCHANGED <<fpc, quiet>>
  /\ UNCHANGED <<fmode, tail_only, chunk_size, file, finish, disturbed, newFile>>
  /\ UNCHANGED nonFolVars

\* mutant: a chunk that fills chunk_size loses its last byte on the way out
fd_next_clipped ==
  /\ fmode = "byte"
  /\ fpc = "read"
  /\ LET data == read(file, pos, chunk_size)
     IN IF data = <<>>
          THEN /\ fpc' = (IF finish THEN "stopped" ELSE "sleep")
               /\ quiet' = TRUE
               /\ UNCHANGED <<pos, out, lateRead>>
          ELSE /\ pos' = pos + Len(data)
               /\ lateRead' = (lateRead \/ finish)
               /\ out' = Append(out, IF Len(data) = chunk_size /\ chunk_size > 1
                                       THEN SubSeq(data, 1, Len(data) - 1)
                                       ELSE data)
               /\ UNCHANGED <<fpc, quiet>>
  /\ UNCHANGED <<fmode, tail_only, chunk_size, file, buf, finish, disturbed, newFile>>
  /\ UNCHANGED nonFolVars

\* FDFollower.__iter__, one turn of the while loop: os.read; on '' stop when
\* finish is set, else sleep; otherwise yield the data
fd_next ==
  /\ fmode = "byte"
  /\ fpc = "read"
  /\ LET data == read(file, pos, chunk_size)
     IN IF data = <<>>
          THEN /\ fpc' = (IF finish THEN "stopped" ELSE "sleep")
               /\ quiet' = TRUE
               /\ UNCHANGED <<pos, out, lateRead>>
          ELSE /\ pos' = pos + Len(data)
               /\ lateRead' = (lateRead \/ finish)
               /\ out' = Append(out, data)
               /\ UNCHANGED <<fpc, quiet>>
  /\ UNCHANGED <<fmode, tail_only, chunk_size, file, buf, finish, disturbed, newFile>>
  /\ UNCHANGED nonFolVars

\* time.sleep(0.1); continue
wake ==
  /\ fpc = "sleep"
  /\ fpc' = "read"
  /\ UNCHANGED <<fmode, tail_only, chunk_size, file, pos, buf, out, finish, disturbed,
                 newFile, quiet, lateRead>>
  /\ UNCHANGED nonFolVars

\* the consumer sets follower.finish = True
set_finish ==
  /\ fpc # "closed"
  /\ ~finish
  /\ finish' = TRUE
  /\ UNCHANGED <<fmode, tail_only, chunk_size, fpc, file, pos, buf, out, disturbed,
                 newFile, quiet, lateRead>>
  /\ UNCHANGED nonFolVars

\* a writer appends one byte to the file at the path (any fragmentation of the
\* appended lines is a sequence of such appends between the reads)
append(c) ==
  /\ Len(PathFile) < (IF disturbed = "no" THEN MaxFile ELSE MaxFresh)
  /\ IF disturbed = "rotated"
       THEN /\ newFile' = Append(newFile, Byte(c, FALSE))
            /\ UNCHANGED file
       ELSE /\ file' = Append(file, Byte(c, fpc = "closed"))
            /\ UNCHANGED newFile
  /\ quiet' = FALSE
  /\ UNCHANGED <<fmode, tail_only, chunk_size, fpc, pos, buf, out, finish, disturbed,
                 lateRead>>
  /\ UNCHANGED nonFolVars

\* the followed file is cut to length 0 while the follower has it open
truncate ==
  /\ fpc # "closed"
  /\ disturbed = "no"
  /\ file' = <<>>
  /\ disturbed' = "truncated"
  /\ quiet' = FALSE
  /\ UNCHANGED <<fmode, tail_only, chunk_size, fpc, pos, buf, out, finish, newFile,
                 lateRead>>
  /\ UNCHANGED nonFolVars

\* the followed file is moved away and a new, empty file takes its path
rotate ==
  /\ fpc # "closed"
  /\ disturbed = "no"
  /\ disturbed' = "rotated"
  /\ quiet' = FALSE
  /\ UNCHANGED <<fmode, tail_only, chunk_size, fpc, file, pos, buf, out, finish, newFile,
                 lateRead>>
  /\ UNCHANGED nonFolVars

\* scripts/stream.py, `except KeyboardInterrupt`: the consumer sets finish and
\* starts a second `for data in follower`, that is a new call of __iter__,
\* which begins with its own empty buf
interrupt ==
  /\ fpc \in {"read", "sleep"}
  /\ ~finish
  /\ finish' = TRUE
  /\ buf' = <<>>
  /\ fpc' = "read"
  /\ UNCHANGED <<fmode, tail_only, chunk_size, file, pos, out, disturbed, newFile,
                 quiet, lateRead>>
  /\ UNCHANGED nonFolVars

\* scripts/stream.py: the follower driven by main, which sets finish when it
\* is interrupted and then drains the follower
StreamNext ==
  \/ enter
  \/ line_next
  \/ fd_next
  \/ wake
  \/ interrupt
  \/ \E c \in Chars : append(c)

FolNext ==
  \/ enter
  \/ line_next
  \/ fd_next
  \/ wake
  \/ set_finish
  \/ \E c \in Chars : append(c)
  \/ truncate
  \/ rotate

\* the follower of a specification that is about the pidfile: never opened
FolParked ==
  /\ fmode = "line" /\ tail_only = FALSE /\ chunk_size = 0 /\ fpc = "closed"
  /\ file = <<>> /\ pos = 0 /\ buf = <<>> /\ out = <<>> /\ finish = FALSE
  /\ disturbed = "no" /\ newFile = <<>> /\ quiet = FALSE /\ lateRead = FALSE

\* ------------------------------------------- LineQueue and rate_limit_gen
\* RATE_LIMIT_SENTINEL, as a value in the sequence the generator yields
RATE_LIMIT_SENTINEL == 0

\* the line tail_multiple gives a QueueChain to stand for dropped lines
\* (prefix + '...'), as a value in the sequences of lines
ELISION_LINE == -1

QInit ==
  /\ limited \in BOOLEAN
  /\ rate_limit \in IF limited THEN 0..MaxLimit ELSE {0}
  /\ rate_period \in IF limited THEN 1..MaxPeriod ELSE {1}
  /\ now = 0
  /\ queue = <<>>
  /\ pushed = 0
  /\ stop = FALSE
  /\ lpc = "check"
  /\ start = 0
  /\ count = -1
  /\ win = 0
  /\ arr = <<>>
  /\ fwd = <<>>
  /\ rate_limit_line \in {<<>>, <<ELISION_LINE>>}
  /\ out_queue = <<>>

\* the clock advances
tick ==
  /\ now < MaxTime
  /\ now' = now + 1
  /\ UNCHANGED <<limited, rate_limit, rate_period, queue, pushed, stop, lpc,
                 start, count, win, arr, fwd, rate_limit_line, out_queue>>
  /\ UNCHANGED nonQVars

\* LineQueue.handle_line: a producer pushes its next line
handle_line ==
  /\ pushed < MaxPush
  /\ pushed' = pushed + 1
  /\ queue' = Append(queue, pushed + 1)
  /\ UNCHANGED <<limited, rate_limit, rate_period, now, stop, lpc, start, count,
                 win, arr, fwd, rate_limit_line, out_queue>>
  /\ UNCHANGED nonQVars

\* tail_multiple: stop.set()
stop_set ==
  /\ ~stop
  /\ stop' = TRUE
  /\ UNCHANGED <<limited, rate_limit, rate_period, now, queue, pushed, lpc, start,
                 count, win, arr, fwd, rate_limit_line, out_queue>>
  /\ UNCHANGED nonQVars

\* mutant: the loop only ends once the queue is empty
line_gen_check_drain ==
  /\ lpc = "check"
  /\ lpc' = (IF stop /\ queue = <<>> THEN "done" ELSE "get")
  /\ UNCHANGED <<limited, rate_limit, rate_period, now, queue, pushed, stop, start,
                 count, win, arr, fwd, rate_limit_line, out_queue>>
  /\ UNCHANGED nonQVars

\* LineQueue._line_gen: `while not self.stop.is_set()`
line_gen_check ==
  /\ lpc = "check"
  /\ lpc' = (IF stop THEN "done" ELSE "get")
  /\ UNCHANGED <<limited, rate_limit, rate_period, now, queue, pushed, stop, start,
                 count, win, arr, fwd, rate_limit_line, out_queue>>
  /\ UNCHANGED nonQVars

\* LineQueue._line_gen: queue.get timed out (Empty); back to the while test
line_gen_empty ==
  /\ lpc = "get"
  /\ queue = <<>>
  /\ lpc' = "check"
  /\ UNCHANGED <<limited, rate_limit, rate_period, now, queue, pushed, stop, start,
                 count, win, arr, fwd, rate_limit_line, out_queue>>
  /\ UNCHANGED nonQVars

\* mutant: whatever the generator yields is handed on as it is
QueueChain_run_asis(line) == <<line>>

\* QueueChain.run, the body of its for loop, as the lines it hands to
\* out_queue.handle_line: the label or nothing for RATE_LIMIT_SENTINEL, the
\* line itself otherwise
QueueChain_run(line) ==
  IF line = RATE_LIMIT_SENTINEL
    THEN rate_limit_line
    ELSE <<line>>

\* get_line_gen returned the plain generator: queue.get yields the oldest
\* line straight to the consumer loop, which runs its body on it
line_gen_yield ==
  /\ ~limited
  /\ lpc = "get"
  /\ queue # <<>>
  /\ fwd' = Append(fwd, [v |-> Head(queue), t |-> now, w |-> 0])
  /\ out_queue' = out_queue \o QueueChain_run(Head(queue))
  /\ queue' = Tail(queue)
  /\ lpc' = "check"
  /\ UNCHANGED <<limited, rate_limit, rate_period, now, pushed, stop, start, count,
                 win, arr, rate_limit_line>>
  /\ UNCHANGED nonQVars

\* mutant: the value that reaches the limit is dropped without a marker
RateStep_nomarker(value) ==
  LET count1 == count + 1
  IN IF now - start < rate_period
       THEN IF count1 >= rate_limit
              THEN [start |-> start, count |-> count1, win |-> win, yield |-> <<>>]
              ELSE [start |-> start, count |-> count1, win |-> win, yield |-> <<value>>]
       ELSE [start |-> now, count |-> 0, win |-> win + 1, yield |-> <<value>>]

\* what rate_limit_gen does with one value of gen, as [start, count, win, yield]:
\* yield is <<>> when the value is dropped, else the one value yielded
RateStep(value) ==
  LET count1 == count + 1
  IN IF now - start < rate_period
       THEN IF count1 = rate_limit
              THEN [start |-> start, count |-> count1, win |-> win,
                    yield |-> <<RATE_LIMIT_SENTINEL>>]
            ELSE IF count1 > rate_limit
              THEN [start |-> start, count |-> count1, win |-> win, yield |-> <<>>]
            ELSE [start |-> start, count |-> count1, win |-> win, yield |-> <<value>>]
       ELSE [start |-> now, count |-> 0, win |-> win + 1, yield |-> <<value>>]

\* rate_limit_gen, one turn of `for value in gen`: the generator takes the
\* oldest line from the queue and counts, yields, replaces or drops it; the
\* consumer loop runs its body on what is yielded
rate_limit_gen ==
  /\ limited
  /\ lpc = "get"
  /\ queue # <<>>
  /\ LET value == Head(queue)
         r == RateStep(value)
     IN /\ start' = r.start
        /\ count' = r.count
        /\ win' = r.win
        /\ arr' = Append(arr, [v |-> value, t |-> now, w |-> r.win])
        /\ fwd' = fwd \o [i \in 1..Len(r.yield) |-> [v |-> r.yield[i], t |-> now, w |-> r.win]]
        /\ out_queue' = out_queue \o (IF r.yield = <<>> THEN <<>>
                                       ELSE QueueChain_run(r.yield[1]))
  /\ queue' = Tail(queue)
  /\ lpc' = "check"
  /\ UNCHANGED <<limited, rate_limit, rate_period, now, pushed, stop,
                 rate_limit_line>>
  /\ UNCHANGED nonQVars

\* the thread that runs the consumer loop (Master.run, QueueChain.run)
ConsumerLoop == line_gen_check \/ line_gen_empty \/ line_gen_yield \/ rate_limit_gen

QueueNext ==
  \/ tick
  \/ handle_line
  \/ stop_set
  \/ line_gen_check
  \/ line_gen_empty
  \/ line_gen_yield
  \/ rate_limit_gen

\* the queue of a specification that is about another component: never used
QParked ==
  /\ limited = FALSE /\ rate_limit = 0 /\ rate_period = 1 /\ now = 0
  /\ queue = <<>> /\ pushed = 0 /\ stop = FALSE /\ lpc = "check"
  /\ start = 0 /\ count = -1 /\ win = 0 /\ arr = <<>> /\ fwd = <<>>
  /\ rate_limit_line = <<>> /\ out_queue = <<>>

\* ------------------------------------------------ pumps and the log sink
Streams == {"out", "err"}

\* bytes a child writes: a letter, a blank (whitespace) and the newline
PChars == {"a", " ", "\n"}

\* the bytes tried against a pump: a raw pump looks at no byte, and its sink
\* only at newlines, so the blank is left to the line pump
Tried(mode) == IF mode = "line" THEN PChars ELSE PChars \ {" "}

\* position of the first newline of a byte string, 0 when it has none
Newline(s) ==
  IF \E i \in 1..Len(s) : s[i] = "\n"
    THEN CHOOSE i \in 1..Len(s) : s[i] = "\n" /\ \A j \in 1..(i - 1) : s[j] # "\n"
    ELSE 0

RECURSIVE concat(_)
\* b''.join(chunks)
concat(ss) == IF ss = <<>> THEN <<>> ELSE Head(ss) \o concat(Tail(ss))

\* logging.Formatter(log_format).format(record) for a record whose message is msg
Format(msg) == IF log_format = "plain" THEN msg ELSE <<"T">> \o msg

\* StreamHandler.emit: one stream.write of the formatted record and "\n"
Emit(msg) == Format(msg) \o <<"\n">>

\* mutant: the stream hands everything through
TrimWrite_none(data) == data

RECURSIVE TrimWrite_all(_)
\* mutant: every trailing newline is cut
TrimWrite_all(data) ==
  IF data # <<>> /\ data[Len(data)] = "\n"
    THEN TrimWrite_all(SubSeq(data, 1, Len(data) - 1))
    ELSE data

\* TrimTrailingNewlinesStream.write: what reaches the wrapped stream
TrimWrite(data) ==
  IF data # <<>> /\ data[Len(data)] = "\n"
    THEN SubSeq(data, 1, Len(data) - 1)
    ELSE data

RECURSIVE rstrip(_)
\* line.rstrip(): every trailing whitespace character is removed
rstrip(line) ==
  IF line # <<>> /\ line[Len(line)] \in {" ", "\n"}
    THEN rstrip(SubSeq(line, 1, Len(line) - 1))
    ELSE line

prefix == <<"P">>
postfix == <<"Q">>

\* '%s%s%s\n' % (self.prefix, line.rstrip(), self.postfix)
Decorate(line) == prefix \o rstrip(line) \o postfix \o <<"\n">>

SubInit ==
  /\ pmode \in {"raw", "line"}
  /\ merged \in IF pmode = "raw" THEN BOOLEAN ELSE {FALSE}
  /\ log_format \in IF pmode = "raw" THEN {"plain", "stamped"} ELSE {"plain"}
  /\ pipe = [s \in Streams |-> <<>>]
  /\ rbuf = [s \in Streams |-> <<>>]
  /\ written = [s \in Streams |-> <<>>]
  /\ calls = [s \in Streams |-> <<>>]
  /\ logf = [s \in Streams |-> <<>>]
  /\ ppc = [s \in Streams |-> IF merged /\ s = "err" THEN "off" ELSE "run"]
  /\ cpc = "run"
  /\ pending = <<>>
  /\ nwritten = 0
  /\ spc = "wait"
  /\ log_handler \in IF pmode = "raw" THEN {"watched", "timed"} ELSE {"watched"}
  /\ cut = [s \in Streams |-> <<>>]
  /\ capture_output \in IF pmode = "line" THEN BOOLEAN ELSE {FALSE}
  /\ pbuf = [s \in Streams |-> <<>>]

\* the child enters a write of one byte to one of its output streams
child_begin(s, c) ==
  /\ cpc = "run"
  /\ nwritten < MaxWrite
  /\ merged => s = "out"
  /\ c \in Tried(pmode)
  /\ pending' = <<s, c>>
  /\ cpc' = "writing"
  /\ UNCHANGED <<pmode, merged, log_format, pipe, rbuf, written, calls, logf, ppc,
                 nwritten, spc, log_handler, cut, capture_output, pbuf>>
  /\ UNCHANGED nonSubVars

\* the write completes once the pipe has room
child_write ==
  /\ cpc = "writing"
  /\ LET s == pending[1]
         c == pending[2]
     IN /\ Len(pipe[s]) < PipeCap
        /\ pipe' = [pipe EXCEPT ![s] = Append(@, c)]
        /\ written' = [written EXCEPT ![s] = Append(@, c)]
  /\ nwritten' = nwritten + 1
  /\ pending' = <<>>
  /\ cpc' = "run"
  /\ UNCHANGED <<pmode, merged, log_format, rbuf, calls, logf, ppc, spc,
                 log_handler, cut, capture_output, pbuf>>
  /\ UNCHANGED nonSubVars

\* the child exits; the write ends of its pipes are closed
child_done ==
  /\ cpc = "run"
  /\ cpc' = "exited"
  /\ UNCHANGED <<pmode, merged, log_format, pipe, rbuf, written, calls, logf, ppc,
                 pending, nwritten, spc, log_handler, cut,
                 capture_output, pbuf>>
  /\ UNCHANGED nonSubVars

\* the child exits while a process it started still has the write ends of
\* its pipes open: proc.poll() sees the exit, the pipes are not at end-of-stream
child_orphans ==
  /\ cpc = "run"
  /\ cpc' = "orphaned"
  /\ UNCHANGED <<pmode, merged, log_format, pipe, rbuf, written, calls, logf, ppc,
                 pending, nwritten, spc, log_handler, cut,
                 capture_output, pbuf>>
  /\ UNCHANGED nonSubVars

\* that process ends too, which closes the write ends
grandchild_done ==
  /\ cpc = "orphaned"
  /\ cpc' = "exited"
  /\ UNCHANGED <<pmode, merged, log_format, pipe, rbuf, written, calls, logf, ppc,
                 pending, nwritten, spc, log_handler, cut,
                 capture_output, pbuf>>
  /\ UNCHANGED nonSubVars

\* the number of rotations of the logs so far
Rotations == Len(cut["out"]) + Len(cut["err"])

\* the log file of stream s has been rotated and nothing was written since:
\* the file the handler last wrote to is not the file at the path
Rotated(s) ==
  /\ cut[s] # <<>>
  /\ cut[s][Len(cut[s])] = Len(logf[s])

\* what a rotation does to the log of stream s: the file as it is now is
\* moved away from the path
Rotate(s) ==
  /\ pmode = "raw"
  /\ merged => s = "out"
  /\ Rotations < MaxRot
  /\ ~Rotated(s)
  /\ cut' = [cut EXCEPT ![s] = Append(@, Len(logf[s]))]
  /\ UNCHANGED <<pmode, merged, log_format, pipe, rbuf, written, calls, logf, ppc,
                 cpc, pending, nwritten, spc, log_handler,
                 capture_output, pbuf>>
  /\ UNCHANGED nonSubVars

\* an outside tool such as logrotate moves the log file of stream s away
logrotate(s) ==
  /\ log_handler = "watched"
  /\ Rotate(s)

\* the interval of the timed handler of stream s ends: the file as it is now
\* is what the handler archives, in doRollover, before it writes again
interval_ends(s) ==
  /\ log_handler = "timed"
  /\ Rotate(s)

\* mutant of handler_emit: a plain FileHandler, which keeps writing to the
\* file it has open wherever that file is now
handler_emit_unwatched(s, record) ==
  IF Rotated(s)
    THEN LET n == Len(cut[s])
             at == cut[s][n]
         IN /\ logf' = [logf EXCEPT ![s] = SubSeq(@, 1, at) \o TrimWrite(record)
                                               \o SubSeq(@, at + 1, Len(@))]
            /\ cut' = [cut EXCEPT ![s][n] = at + Len(TrimWrite(record))]
    ELSE /\ logf' = [logf EXCEPT ![s] = @ \o TrimWrite(record)]
         /\ UNCHANGED cut

\* the handler of stream s writes a record. WatchedFileHandler.emit compares
\* the file at the path with the one its stream has open and reopens the
\* path through _open when they differ; TimedRotatingFileHandler.emit
\* archives the file and opens a new one through _open when its interval
\* has ended. Either way the text goes to the file at the path, through a
\* TrimTrailingNewlinesStream, and the files rotated away are left alone
handler_emit(s, record) ==
  /\ logf' = [logf EXCEPT ![s] = @ \o TrimWrite(record)]
  /\ UNCHANGED cut

\* what one turn of Pipe.flow's loop does to <<pipe, calls, logf, cut, ppc>>
\* of stream s once os.read has returned data (b'' at end-of-stream)
PipeTurn(s, data) ==
  IF data = <<>>
    THEN /\ ppc' = [ppc EXCEPT ![s] = "done"]
         /\ UNCHANGED <<pipe, calls, logf, cut>>
    ELSE /\ pipe' = [pipe EXCEPT ![s] = SubSeq(@, Len(data) + 1, Len(@))]
         /\ calls' = [calls EXCEPT ![s] = Append(@, data)]
         /\ handler_emit(s, Emit(data))
         /\ UNCHANGED ppc

\* mutant: the read does not wait: an empty pipe is taken for end-of-stream
Pipe_flow_nowait(s) ==
  /\ pmode = "raw"
  /\ ppc[s] = "run"
  /\ PipeTurn(s, SubSeq(pipe[s], 1, IF Len(pipe[s]) < MaxRead THEN Len(pipe[s]) ELSE MaxRead))
  /\ UNCHANGED <<pmode, merged, log_format, rbuf, written, cpc, pending, nwritten, spc,
                 log_handler, capture_output, pbuf>>
  /\ UNCHANGED nonSubVars

\* mutant: one thread drains stdout to its end before it turns to stderr
Pipe_flow_lockstep(s) ==
  /\ pmode = "raw"
  /\ ppc[s] = "run"
  /\ s = "err" => ppc["out"] # "run"
  /\ pipe[s] # <<>> \/ cpc = "exited"
  /\ PipeTurn(s, SubSeq(pipe[s], 1, IF Len(pipe[s]) < MaxRead THEN Len(pipe[s]) ELSE MaxRead))
  /\ UNCHANGED <<pmode, merged, log_format, rbuf, written, cpc, pending, nwritten, spc,
                 log_handler, capture_output, pbuf>>
  /\ UNCHANGED nonSubVars

\* Pipe.flow, one turn of `while True`: os.read(fd, 65536) returns as soon as
\* the pipe holds data (at most the size asked for) or is at end-of-stream;
\* b'' breaks the loop, anything else goes to output_func (logger.info)
Pipe_flow(s) ==
  /\ pmode = "raw"
  /\ ppc[s] = "run"
  /\ pipe[s] # <<>> \/ cpc = "exited"
  /\ PipeTurn(s, SubSeq(pipe[s], 1, IF Len(pipe[s]) < MaxRead THEN Len(pipe[s]) ELSE MaxRead))
  /\ UNCHANGED <<pmode, merged, log_format, rbuf, written, cpc, pending, nwritten, spc,
                 log_handler, capture_output, pbuf>>
  /\ UNCHANGED nonSubVars

\* input_stream.readline, first half: the file object reads what the pipe
\* holds into its buffer while it looks for the newline
LinePipe_fill(s) ==
  /\ pmode = "line"
  /\ ppc[s] = "run"
  /\ pipe[s] # <<>>
  /\ rbuf' = [rbuf EXCEPT ![s] = @ \o pipe[s]]
  /\ pipe' = [pipe EXCEPT ![s] = <<>>]
  /\ UNCHANGED <<pmode, merged, log_format, written, calls, logf, ppc, cpc, pending,
                 nwritten, spc, log_handler, cut, capture_output, pbuf>>
  /\ UNCHANGED nonSubVars

\* mutant: what is captured is the line without its trailing white space
LinePipe_flow_stripped(s) ==
  /\ pmode = "line"
  /\ ppc[s] = "run"
  /\ LET n == Newline(rbuf[s])
         eof == cpc = "exited" /\ pipe[s] = <<>>
     IN /\ n > 0 \/ eof
        /\ LET line == IF n > 0 THEN SubSeq(rbuf[s], 1, n) ELSE rbuf[s]
           IN IF line = <<>>
                THEN /\ ppc' = [ppc EXCEPT ![s] = "done"]
                     /\ UNCHANGED <<rbuf, calls, pbuf>>
                ELSE /\ rbuf' = [rbuf EXCEPT ![s] = SubSeq(@, Len(line) + 1, Len(@))]
                     /\ pbuf' = (IF capture_output
                                   THEN [pbuf EXCEPT ![s] = Append(@, rstrip(line))]
                                   ELSE pbuf)
                     /\ calls' = [calls EXCEPT ![s] = Append(@, Decorate(line))]
                     /\ UNCHANGED ppc
  /\ UNCHANGED <<pmode, merged, log_format, pipe, written, logf, cpc, pending,
                 nwritten, spc, log_handler, cut, capture_output>>
  /\ UNCHANGED nonSubVars

\* LinePipe.flow, one turn of `for line in iter(readline, b'')`: readline
\* returns the buffered bytes up to and with the first newline, or at
\* end-of-stream what is left; b'' ends the loop, a line is appended to buf
\* when capture_output is set and goes decorated to output_func
LinePipe_flow(s) ==
  /\ pmode = "line"
  /\ ppc[s] = "run"
  /\ LET n == Newline(rbuf[s])
         eof == cpc = "exited" /\ pipe[s] = <<>>
     IN /\ n > 0 \/ eof
        /\ LET line == IF n > 0 THEN SubSeq(rbuf[s], 1, n) ELSE rbuf[s]
           IN IF line = <<>>
                THEN /\ ppc' = [ppc EXCEPT ![s] = "done"]
                     /\ UNCHANGED <<rbuf, calls, pbuf>>
                ELSE /\ rbuf' = [rbuf EXCEPT ![s] = SubSeq(@, Len(line) + 1, Len(@))]
                     /\ pbuf' = (IF capture_output
                                   THEN [pbuf EXCEPT ![s] = Append(@, line)]
                                   ELSE pbuf)
                     /\ calls' = [calls EXCEPT ![s] = Append(@, Decorate(line))]
                     /\ UNCHANGED ppc
  /\ UNCHANGED <<pmode, merged, log_format, pipe, written, logf, cpc, pending,
                 nwritten, spc, log_handler, cut, capture_output>>
  /\ UNCHANGED nonSubVars

\* the supervisor's wait for the child (proc.wait(), or the proc.poll() loop)
\* ends once the child has exited
sup_wait ==
  /\ spc = "wait"
  /\ cpc \in {"exited", "orphaned"}
  /\ spc' = "join"
  /\ UNCHANGED <<pmode, merged, log_format, pipe, rbuf, written, calls, logf, ppc,
                 cpc, pending, nwritten, log_handler, cut,
                 capture_output, pbuf>>
  /\ UNCHANGED nonSubVars

\* thread.join(): every pump thread has finished
sup_join ==
  /\ spc = "join"
  /\ \A s \in Streams : ppc[s] # "run"
  /\ spc' = "done"
  /\ UNCHANGED <<pmode, merged, log_format, pipe, rbuf, written, calls, logf, ppc,
                 cpc, pending, nwritten, log_handler, cut,
                 capture_output, pbuf>>
  /\ UNCHANGED nonSubVars

\* daemonize.main only: the 5 second wait_time for the pump threads is over
sup_giveup ==
  /\ spc = "join"
  /\ pmode = "raw"
  /\ \E s \in Streams : ppc[s] = "run"
  /\ spc' = "done"
  /\ UNCHANGED <<pmode, merged, log_format, pipe, rbuf, written, calls, logf, ppc,
                 cpc, pending, nwritten, log_handler, cut,
                 capture_output, pbuf>>
  /\ UNCHANGED nonSubVars

\* mutant: the pump threads are daemon threads, the process ends without them
sup_exit_daemon ==
  /\ spc = "done"
  /\ pmode = "raw"
  /\ spc' = "exited"
  /\ UNCHANGED <<pmode, merged, log_format, pipe, rbuf, written, calls, logf, ppc,
                 cpc, pending, nwritten, log_handler, cut,
                 capture_output, pbuf>>
  /\ UNCHANGED nonSubVars

\* daemonize.main: sys.exit(). The pump threads are started as ordinary
\* (non-daemon) threads, so the interpreter joins them before the process
\* ends, whatever the wait_time loop did
sup_exit ==
  /\ spc = "done"
  /\ pmode = "raw"
  /\ \A s \in Streams : ppc[s] # "run"
  /\ spc' = "exited"
  /\ UNCHANGED <<pmode, merged, log_format, pipe, rbuf, written, calls, logf, ppc,
                 cpc, pending, nwritten, log_handler, cut,
                 capture_output, pbuf>>
  /\ UNCHANGED nonSubVars

\* the thread that runs the pump of stream s
PumpThread(s) == Pipe_flow(s) \/ LinePipe_fill(s) \/ LinePipe_flow(s)

SubNext ==
  \/ \E s \in Streams : \E c \in PChars : child_begin(s, c)
  \/ child_write
  \/ child_done
  \/ child_orphans
  \/ grandchild_done
  \/ \E s \in Streams : Pipe_flow(s)
  \/ \E s \in Streams : LinePipe_fill(s)
  \/ \E s \in Streams : LinePipe_flow(s)
  \/ sup_wait
  \/ sup_join
  \/ sup_giveup
  \/ sup_exit

\* run_subproc: the child, the two LinePipe threads and the caller
CaptureNext ==
  \/ \E s \in Streams : \E c \in PChars : child_begin(s, c)
  \/ child_write
  \/ child_done
  \/ child_orphans
  \/ grandchild_done
  \/ \E s \in Streams : LinePipe_fill(s)
  \/ \E s \in Streams : LinePipe_flow(s)
  \/ sup_wait
  \/ sup_join

\* daemonize.main with its log files rotated while it runs
SinkNext ==
  \/ \E s \in Streams : logrotate(s)
  \/ \E s \in Streams : interval_ends(s)
  \/ \E s \in Streams : \E c \in PChars : child_begin(s, c)
  \/ child_write
  \/ child_done
  \/ child_orphans
  \/ grandchild_done
  \/ \E s \in Streams : Pipe_flow(s)
  \/ sup_wait
  \/ sup_join
  \/ sup_giveup
  \/ sup_exit

\* the pumps in the specification of main's pidfiles: no child yet;
\* --stderr-log names a file or is STDOUT
SubUnused ==
  /\ pmode = "raw" /\ merged \in BOOLEAN /\ log_format = "plain"
  /\ pipe = [s \in Streams |-> <<>>] /\ rbuf = [s \in Streams |-> <<>>]
  /\ written = [s \in Streams |-> <<>>] /\ calls = [s \in Streams |-> <<>>]
  /\ logf = [s \in Streams |-> <<>>] /\ ppc = [s \in Streams |-> "off"]
  /\ cpc = "exited" /\ pending = <<>> /\ nwritten = 0 /\ spc = "done"
  /\ log_handler = "watched" /\ cut = [s \in Streams |-> <<>>]
  /\ capture_output = FALSE /\ pbuf = [s \in Streams |-> <<>>]

\* the pumps of a specification that is about another component: no child
SubParked ==
  /\ pmode = "raw" /\ merged = FALSE /\ log_format = "plain"
  /\ pipe = [s \in Streams |-> <<>>] /\ rbuf = [s \in Streams |-> <<>>]
  /\ written = [s \in Streams |-> <<>>] /\ calls = [s \in Streams |-> <<>>]
  /\ logf = [s \in Streams |-> <<>>] /\ ppc = [s \in Streams |-> "off"]
  /\ cpc = "exited" /\ pending = <<>> /\ nwritten = 0 /\ spc = "done"
  /\ log_handler = "watched" /\ cut = [s \in Streams |-> <<>>]
  /\ capture_output = FALSE /\ pbuf = [s \in Streams |-> <<>>]

\* ------------------------------------------------------------ proc.py
Pids == 1..MaxPid

RECURSIVE Anc(_, _)
\* r is an ancestor of p in the process table (parents have smaller pids)
Anc(p, r) == ppid[p] # 0 /\ (ppid[p] = r \/ Anc(ppid[p], r))

RECURSIVE SetToSeq(_)
\* the members of a set of pids as a list, smallest first
SetToSeq(S) ==
  IF S = {} THEN <<>>
  ELSE LET m == CHOOSE x \in S : \A y \in S : x <= y
       IN <<m>> \o SetToSeq(S \ {m})

\* proc.children(recursive=True)
Children(r) == SetToSeq({p \in alive : Anc(p, r)})

KInit ==
  /\ alive = {}
  /\ ppid = [p \in Pids |-> 0]
  /\ nextPid = 1
  /\ denied \in {{}, {2}}
  /\ op \in {"tree", "signalling", "dead"}
  /\ recursive \in IF op = "tree" THEN {FALSE} ELSE BOOLEAN
  /\ tpid = 1
  /\ asProc = ""
  /\ kpc = "idle"
  /\ todo = <<>>
  /\ procs = <<>>
  /\ pset = {}
  /\ idx = 0
  /\ root = 0
  /\ tree = <<>>
  /\ err = "none"
  /\ bodyRaised = FALSE
  /\ existed = FALSE
  /\ snaps = <<>>
  /\ klog = <<>>

\* a process (q = 0: some process outside the tree) starts a new process
spawn(q) ==
  /\ nextPid <= MaxPid
  /\ q = 0 \/ q \in alive
  /\ alive' = alive \cup {nextPid}
  /\ ppid' = [ppid EXCEPT ![nextPid] = q]
  /\ nextPid' = nextPid + 1
  /\ UNCHANGED <<denied, op, recursive, tpid, asProc, kpc, todo, procs, pset, idx,
                 root, tree, err, bodyRaised, existed, snaps, klog>>
  /\ UNCHANGED nonKVars

\* a process ends (by itself or by a signal); its children are orphaned
exit(p) ==
  /\ p \in alive
  /\ alive' = alive \ {p}
  /\ ppid' = [c \in Pids |-> IF ppid[c] = p THEN 0 ELSE ppid[c]]
  /\ UNCHANGED <<nextPid, denied, op, recursive, tpid, asProc, kpc, todo, procs,
                 pset, idx, root, tree, err, bodyRaised, existed, snaps, klog>>
  /\ UNCHANGED nonKVars

\* mutant of call: dead nests killing inside terminating
call_killfirst ==
  /\ kpc = "idle"
  /\ op # "tree" => tpid < nextPid
  /\ existed' = (tpid \in alive \/ tpid >= nextPid)
  /\ IF op = "tree"
       THEN /\ kpc' = "gpt_process"
            /\ UNCHANGED <<asProc, todo>>
       ELSE /\ kpc' = "body"
            /\ asProc' = "proc"
            /\ todo' = (IF op = "dead" THEN <<"kill", "terminate">> ELSE <<"terminate">>)
  /\ UNCHANGED <<alive, ppid, nextPid, denied, op, recursive, tpid, procs, pset, idx,
                 root, tree, err, bodyRaised, snaps, klog>>
  /\ UNCHANGED nonKVars

\* the caller makes its call: get_process_tree(pid) for any pid, or it enters
\* `with signalling(proc, ...)` / `with dead(proc, ...)`, which yields proc;
\* proc is a process object, so its pid is one that was given to a process
call ==
  /\ kpc = "idle"
  /\ op # "tree" => tpid < nextPid
  /\ existed' = (tpid \in alive \/ tpid >= nextPid)
  /\ IF op = "tree"
       THEN /\ kpc' = "gpt_process"
            /\ UNCHANGED <<asProc, todo>>
       ELSE /\ kpc' = "body"
            /\ asProc' = "proc"
            /\ todo' = (IF op = "dead" THEN <<"terminate", "kill">> ELSE <<"terminate">>)
  /\ UNCHANGED <<alive, ppid, nextPid, denied, op, recursive, tpid, procs, pset, idx,
                 root, tree, err, bodyRaised, snaps, klog>>
  /\ UNCHANGED nonKVars

\* the body of the with block points proc.pid at another process
set_pid(p) ==
  /\ kpc = "body"
  /\ p # tpid
  /\ p < nextPid
  /\ tpid' = p
  /\ UNCHANGED <<alive, ppid, nextPid, denied, op, recursive, asProc, kpc, todo,
                 procs, pset, idx, root, tree, err, bodyRaised, existed, snaps, klog>>
  /\ UNCHANGED nonKVars

\* mutant of body_end: no finally, a raising body leaves without signalling
body_end_nofinally(raises) ==
  /\ kpc = "body"
  /\ bodyRaised' = raises
  /\ err' = (IF raises THEN "Body" ELSE "none")
  /\ kpc' = (IF raises THEN "finished" ELSE "resolve")
  /\ todo' = (IF raises THEN <<>> ELSE todo)
  /\ UNCHANGED <<alive, ppid, nextPid, denied, op, recursive, tpid, asProc,
                 procs, pset, idx, root, tree, existed, snaps, klog>>
  /\ UNCHANGED nonKVars

\* the body of the with block ends, normally or by raising
body_end(raises) ==
  /\ kpc = "body"
  /\ bodyRaised' = raises
  /\ err' = (IF raises THEN "Body" ELSE "none")
  /\ kpc' = "resolve"
  /\ UNCHANGED <<alive, ppid, nextPid, denied, op, recursive, tpid, asProc, todo,
                 procs, pset, idx, root, tree, existed, snaps, klog>>
  /\ UNCHANGED nonKVars

\* the context manager being left is done: go on to the enclosing one, or out
PhaseDone ==
  /\ todo' = Tail(todo)
  /\ kpc' = (IF Tail(todo) = <<>> THEN "finished" ELSE "resolve")

\* _signal_processes(procs, signal_func_name) starts on the list ps
SignalList(ps) ==
  IF ps = <<>>
    THEN PhaseDone /\ idx' = 0
    ELSE kpc' = "check" /\ idx' = 1 /\ UNCHANGED todo

\* the for loop of _signal_processes goes on to the next process
Advance ==
  IF idx < Len(procs)
    THEN kpc' = "check" /\ idx' = idx + 1 /\ UNCHANGED todo
    ELSE PhaseDone /\ idx' = 0

\* get_process_tree returns t: to the caller, or into signalling's finally,
\* which joins it to the shared set when there is one and signals the result
Return(t) ==
  /\ tree' = t
  /\ IF op = "tree"
       THEN /\ kpc' = "returned"
            /\ UNCHANGED <<todo, procs, pset, idx, snaps>>
       ELSE LET fresh == {t[i] : i \in 1..Len(t)}
                all == IF op = "dead" THEN pset \cup fresh ELSE pset
                ps == IF op = "dead" THEN SetToSeq(all) ELSE t
            IN /\ pset' = all
               /\ procs' = ps
               /\ snaps' = Append(snaps, [sig |-> Head(todo), ran |-> TRUE,
                                          fresh |-> fresh, used |-> ps])
               /\ SignalList(ps)

\* signalling's finally without recursive: the process is looked up by proc.pid
resolve_plain ==
  /\ kpc = "resolve"
  /\ ~recursive
  /\ LET ps == IF tpid \in alive THEN <<tpid>> ELSE <<>>
     IN /\ procs' = ps
        /\ snaps' = Append(snaps, [sig |-> Head(todo), ran |-> TRUE,
                                   fresh |-> {ps[i] : i \in 1..Len(ps)}, used |-> ps])
        /\ SignalList(ps)
  /\ UNCHANGED <<alive, ppid, nextPid, denied, op, recursive, tpid, asProc, pset,
                 root, tree, err, bodyRaised, existed, klog>>
  /\ UNCHANGED nonKVars

\* get_process_tree: psutil.Process(pid) inside the try
gpt_process ==
  /\ kpc = "gpt_process" \/ (kpc = "resolve" /\ recursive)
  /\ IF tpid \in alive
       THEN /\ root' = tpid
            /\ kpc' = "gpt_children"
            /\ UNCHANGED <<tree, todo, procs, pset, idx, snaps>>
       ELSE /\ root' = 0
            /\ Return(<<>>)
  /\ UNCHANGED <<alive, ppid, nextPid, denied, op, recursive, tpid, asProc, err,
                 bodyRaised, existed, klog>>
  /\ UNCHANGED nonKVars

\* get_process_tree: [proc] + proc.children(recursive=True), outside the try;
\* children() raises NoSuchProcess for a process that is gone.  In signalling
\* the handler of the finally block re-raises it, or, when the body had raised,
\* logs with the unassigned local procs and raises UnboundLocalError instead.
gpt_children ==
  /\ kpc = "gpt_children"
  /\ IF root \in alive
       THEN /\ Return(<<root>> \o Children(root))
            /\ UNCHANGED err
       ELSE IF op = "tree"
         THEN /\ kpc' = "raised"
              /\ err' = "NoSuchProcess"
              /\ UNCHANGED <<tree, todo, procs, pset, idx, snaps>>
         ELSE /\ err' = (IF err = "none" THEN "NoSuchProcess" ELSE "UnboundLocalError")
              /\ snaps' = Append(snaps, [sig |-> Head(todo), ran |-> FALSE,
                                         fresh |-> {}, used |-> <<>>])
              /\ PhaseDone
              /\ UNCHANGED <<tree, procs, pset, idx>>
  /\ UNCHANGED <<alive, ppid, nextPid, denied, op, recursive, tpid, asProc, root,
                 bodyRaised, existed, klog>>
  /\ UNCHANGED nonKVars

\* _signal_processes: if proc.is_running()
sp_check ==
  /\ kpc = "check"
  /\ IF procs[idx] \in alive
       THEN /\ kpc' = "call"
            /\ UNCHANGED <<todo, idx, klog>>
       ELSE /\ klog' = Append(klog, [sig |-> Head(todo), pid |-> procs[idx], res |-> "skip"])
            /\ Advance
  /\ UNCHANGED <<alive, ppid, nextPid, denied, op, recursive, tpid, asProc, procs,
                 pset, root, tree, err, bodyRaised, existed, snaps>>
  /\ UNCHANGED nonKVars

\* what getattr(proc, func_name)() does for process p
Signal(p) == IF p \notin alive THEN "gone" ELSE IF p \in denied THEN "error" ELSE "ok"

\* mutant of sp_call: an exception of the signalling call ends the loop
sp_call_abort ==
  /\ kpc = "call"
  /\ klog' = Append(klog, [sig |-> Head(todo), pid |-> procs[idx], res |-> Signal(procs[idx])])
  /\ IF Signal(procs[idx]) = "ok" THEN Advance ELSE PhaseDone /\ idx' = 0
  /\ UNCHANGED <<alive, ppid, nextPid, denied, op, recursive, tpid, asProc, procs,
                 pset, root, tree, err, bodyRaised, existed, snaps>>
  /\ UNCHANGED nonKVars

\* _signal_processes: the signalling call in its try, both handlers going on
sp_call ==
  /\ kpc = "call"
  /\ klog' = Append(klog, [sig |-> Head(todo), pid |-> procs[idx], res |-> Signal(procs[idx])])
  /\ Advance
  /\ UNCHANGED <<alive, ppid, nextPid, denied, op, recursive, tpid, asProc, procs,
                 pset, root, tree, err, bodyRaised, existed, snaps>>
  /\ UNCHANGED nonKVars

KNext ==
  \/ \E q \in {0} \cup Pids : spawn(q)
  \/ \E p \in Pids : exit(p)
  \/ call
  \/ \E p \in Pids : set_pid(p)
  \/ \E raises \in BOOLEAN : body_end(raises)
  \/ resolve_plain
  \/ gpt_process
  \/ gpt_children
  \/ sp_check
  \/ sp_call

\* the component at rest, for the specifications of the other components
KParked ==
  /\ alive = {}
  /\ ppid = [p \in Pids |-> 0]
  /\ nextPid = MaxPid + 1
  /\ denied = {}
  /\ op = "tree"
  /\ recursive = FALSE
  /\ tpid = 1
  /\ asProc = ""
  /\ kpc = "returned"
  /\ todo = <<>>
  /\ procs = <<>>
  /\ pset = {}
  /\ idx = 0
  /\ root = 0
  /\ tree = <<>>
  /\ err = "none"
  /\ bodyRaised = FALSE
  /\ existed = FALSE
  /\ snaps = <<>>
  /\ klog = <<>>

\* ------------------------------------------------------ daemonize.py main
PidFiles == {"main", "app"}

\* what can go wrong in one run: nothing; Popen raises OSError; the sidecar
\* file of the app pidfile cannot be opened; the app pidfile cannot be created;
\* it cannot be written; starting the pumps raises; SIGTERM while waiting;
\* --when is not understood; the stdout or the stderr log cannot be opened
Faults == {"none", "spawn", "lockopen", "create", "write", "pump", "signal",
           "when", "outlog", "errlog"}

\* the faults that strike before main reaches the DaemonContext
EarlyFaults == {"when", "outlog", "errlog"}

MInit ==
  /\ has_pidfile \in BOOLEAN
  /\ has_applock \in BOOLEAN
  /\ fault \in Faults
  /\ fault \in {"lockopen", "create", "write"} => has_applock
  /\ fault = "errlog" => ~merged
  /\ mpc = "validate"
  /\ msub = "none"
  /\ mobj = "main"
  /\ lockobj = [f \in PidFiles |-> "None"]
  /\ fileobj = [f \in PidFiles |-> "None"]
  /\ pidOnDisk \in [PidFiles -> {"absent", "stale"}]
  /\ lkOnDisk \in [PidFiles -> BOOLEAN]
  /\ \A f \in PidFiles : pidOnDisk[f] = "stale" => lkOnDisk[f]
  /\ foreign \in BOOLEAN
  /\ foreign => (has_applock /\ lkOnDisk["app"] /\ pidOnDisk["app"] = "stale")
  /\ cmd = "none"
  /\ mexc = "none"
  /\ released = <<>>
  /\ sinks = {}

\* LockedPidFile.acquire leaves with exception x: out of DaemonContext.__enter__
\* and so out of main, or into the finally of main
AcquireRaise(x) ==
  /\ mexc' = x
  /\ msub' = "none"
  /\ mpc' = (IF mobj = "main" THEN "exited" ELSE "finally")

\* LockedPidFile.release leaves with exception x, which replaces the one on its way
ReleaseRaise(x) ==
  /\ mexc' = x
  /\ msub' = "none"
  /\ mpc' = (IF mobj = "app" THEN "ctx_exit" ELSE "exited")

\* if args['--when'] not in (...): sys.exit(1)
main_validate ==
  /\ mpc = "validate"
  /\ IF fault = "when"
       THEN mexc' = "SystemExit(1)" /\ mpc' = "exited"
       ELSE mpc' = "open_out" /\ UNCHANGED mexc
  /\ UNCHANGED <<has_pidfile, has_applock, fault, msub, mobj, lockobj, fileobj,
                 pidOnDisk, lkOnDisk, foreign, cmd, released, sinks>>
  /\ UNCHANGED nonMVars

\* out_logger, out_handler = get_logger('stdout', ...): the handler opens its file
main_open_out ==
  /\ mpc = "open_out"
  /\ IF fault = "outlog"
       THEN mexc' = "IOError" /\ mpc' = "exited" /\ UNCHANGED sinks
       ELSE sinks' = sinks \cup {"out"} /\ mpc' = "open_err" /\ UNCHANGED mexc
  /\ UNCHANGED <<has_pidfile, has_applock, fault, msub, mobj, lockobj, fileobj,
                 pidOnDisk, lkOnDisk, foreign, cmd, released>>
  /\ UNCHANGED nonMVars

\* mutant of main_open_err: the handler is made with delay, the file is not opened
main_open_err_delayed ==
  /\ mpc = "open_err"
  /\ mpc' = "start"
  /\ UNCHANGED <<has_pidfile, has_applock, fault, msub, mobj, lockobj, fileobj,
                 pidOnDisk, lkOnDisk, foreign, cmd, mexc, released, sinks>>
  /\ UNCHANGED nonMVars

\* if args['--stderr-log'] == 'STDOUT': ... else: get_logger('stderr', ...)
main_open_err ==
  /\ mpc = "open_err"
  /\ IF merged
       THEN mpc' = "start" /\ UNCHANGED <<mexc, sinks>>
       ELSE IF fault = "errlog"
         THEN mexc' = "IOError" /\ mpc' = "exited" /\ UNCHANGED sinks
         ELSE sinks' = sinks \cup {"err"} /\ mpc' = "start" /\ UNCHANGED mexc
  /\ UNCHANGED <<has_pidfile, has_applock, fault, msub, mobj, lockobj, fileobj,
                 pidOnDisk, lkOnDisk, foreign, cmd, released>>
  /\ UNCHANGED nonMVars

\* with daemon.DaemonContext(pidfile=pidfile, ...): the process detaches and
\* __enter__ enters the pidfile
main_enter ==
  /\ mpc = "start"
  /\ IF has_pidfile
       THEN mpc' = "acquire" /\ msub' = "lp_open" /\ mobj' = "main"
       ELSE mpc' = "popen" /\ UNCHANGED <<msub, mobj>>
  /\ UNCHANGED <<has_pidfile, has_applock, fault, lockobj, fileobj, pidOnDisk,
                 lkOnDisk, foreign, cmd, mexc, released, sinks>>
  /\ UNCHANGED nonMVars

\* acquire: self.pidfile_lock = InterProcessLock(path); its acquire() opens
\* the sidecar file with open(path, 'a')
lp_open ==
  /\ msub = "lp_open"
  /\ lockobj' = [lockobj EXCEPT ![mobj] = "idle"]
  /\ IF fault = "lockopen" /\ mobj = "app"
       THEN AcquireRaise("IOError") /\ UNCHANGED lkOnDisk
       ELSE /\ lkOnDisk' = [lkOnDisk EXCEPT ![mobj] = TRUE]
            /\ msub' = "lp_lock"
            /\ UNCHANGED <<mpc, mexc>>
  /\ UNCHANGED <<has_pidfile, has_applock, fault, mobj, fileobj, pidOnDisk,
                 foreign, cmd, released, sinks>>
  /\ UNCHANGED nonMVars

\* acquire: the blocking lock on the sidecar file, which waits for its holder
lp_lock ==
  /\ msub = "lp_lock"
  /\ ~(mobj = "app" /\ foreign)
  /\ lockobj' = [lockobj EXCEPT ![mobj] = "acquired"]
  /\ msub' = "lp_stale"
  /\ UNCHANGED <<has_pidfile, has_applock, fault, mpc, mobj, fileobj, pidOnDisk,
                 lkOnDisk, foreign, cmd, mexc, released, sinks>>
  /\ UNCHANGED nonMVars

\* acquire: a pidfile that exists is checked, whatever the check says, and removed
lp_stale ==
  /\ msub = "lp_stale"
  /\ pidOnDisk' = [pidOnDisk EXCEPT ![mobj] = "absent"]
  /\ msub' = "lp_create"
  /\ UNCHANGED <<has_pidfile, has_applock, fault, mpc, mobj, lockobj, fileobj,
                 lkOnDisk, foreign, cmd, mexc, released, sinks>>
  /\ UNCHANGED nonMVars

\* acquire: self.pidfile = os.fdopen(os.open(path, O_CREAT | O_EXCL | O_WRONLY))
lp_create ==
  /\ msub = "lp_create"
  /\ IF fault = "create" /\ mobj = "app"
       THEN AcquireRaise("OSError") /\ UNCHANGED <<pidOnDisk, fileobj>>
       ELSE /\ pidOnDisk' = [pidOnDisk EXCEPT ![mobj] = "own"]
            /\ fileobj' = [fileobj EXCEPT ![mobj] = "open"]
            /\ msub' = "lp_write"
            /\ UNCHANGED <<mpc, mexc>>
  /\ UNCHANGED <<has_pidfile, has_applock, fault, mobj, lockobj, lkOnDisk,
                 foreign, cmd, released, sinks>>
  /\ UNCHANGED nonMVars

\* acquire: self.pidfile.write(str(pid)); self.pidfile.flush(); return True:
\* back in DaemonContext.__enter__, or at proc.stdin.close() in main
lp_write ==
  /\ msub = "lp_write"
  /\ IF fault = "write" /\ mobj = "app"
       THEN AcquireRaise("IOError")
       ELSE /\ msub' = "none"
            /\ mpc' = (IF mobj = "main" THEN "popen" ELSE "pump")
            /\ UNCHANGED mexc
  /\ UNCHANGED <<has_pidfile, has_applock, fault, mobj, lockobj, fileobj,
                 pidOnDisk, lkOnDisk, foreign, cmd, released, sinks>>
  /\ UNCHANGED nonMVars

\* proc = subprocess.Popen(...), then applock.acquire(proc.pid) when configured
main_popen ==
  /\ mpc = "popen"
  /\ IF fault = "spawn"
       THEN /\ mexc' = "OSError"
            /\ mpc' = "finally"
            /\ UNCHANGED <<cmd, msub, mobj>>
       ELSE /\ cmd' = "running"
            /\ UNCHANGED mexc
            /\ IF has_applock
                 THEN mpc' = "acquire" /\ msub' = "lp_open" /\ mobj' = "app"
                 ELSE mpc' = "pump" /\ UNCHANGED <<msub, mobj>>
  /\ UNCHANGED <<has_pidfile, has_applock, fault, lockobj, fileobj, pidOnDisk,
                 lkOnDisk, foreign, released, sinks>>
  /\ UNCHANGED nonMVars

\* proc.stdin.close() and the pump threads are started
main_pump ==
  /\ mpc = "pump"
  /\ IF fault = "pump"
       THEN mexc' = "ThreadError" /\ mpc' = "finally"
       ELSE mpc' = "wait" /\ UNCHANGED mexc
  /\ UNCHANGED <<has_pidfile, has_applock, fault, msub, mobj, lockobj, fileobj,
                 pidOnDisk, lkOnDisk, foreign, cmd, released, sinks>>
  /\ UNCHANGED nonMVars

\* the wait loop has seen proc.returncode and the threads were joined
main_wait ==
  /\ mpc = "wait"
  /\ cmd = "exited"
  /\ mpc' = "finally"
  /\ UNCHANGED <<has_pidfile, has_applock, fault, msub, mobj, lockobj, fileobj,
                 pidOnDisk, lkOnDisk, foreign, cmd, mexc, released, sinks>>
  /\ UNCHANGED nonMVars

\* SIGTERM in the wait loop: DaemonContext's handler raises SystemExit
main_signal ==
  /\ mpc = "wait"
  /\ fault = "signal"
  /\ mexc' = "SystemExit(SIGTERM)"
  /\ mpc' = "finally"
  /\ UNCHANGED <<has_pidfile, has_applock, fault, msub, mobj, lockobj, fileobj,
                 pidOnDisk, lkOnDisk, foreign, cmd, released, sinks>>
  /\ UNCHANGED nonMVars

\* mutant of main_finally: the app pidfile is released only when nothing was raised
main_finally_noexc ==
  /\ mpc = "finally"
  /\ IF has_applock /\ mexc = "none"
       THEN mpc' = "release" /\ msub' = "lp_release" /\ mobj' = "app"
       ELSE /\ mpc' = (IF mexc = "none" THEN "sysexit" ELSE "ctx_exit")
            /\ UNCHANGED <<msub, mobj>>
  /\ UNCHANGED <<has_pidfile, has_applock, fault, lockobj, fileobj, pidOnDisk,
                 lkOnDisk, foreign, cmd, mexc, released, sinks>>
  /\ UNCHANGED nonMVars

\* finally: if applock: applock.release()
main_finally ==
  /\ mpc = "finally"
  /\ IF has_applock
       THEN mpc' = "release" /\ msub' = "lp_release" /\ mobj' = "app"
       ELSE /\ mpc' = (IF mexc = "none" THEN "sysexit" ELSE "ctx_exit")
            /\ UNCHANGED <<msub, mobj>>
  /\ UNCHANGED <<has_pidfile, has_applock, fault, lockobj, fileobj, pidOnDisk,
                 lkOnDisk, foreign, cmd, mexc, released, sinks>>
  /\ UNCHANGED nonMVars

\* release: if not self.pidfile_lock.acquired: raise Error (AttributeError when
\* pidfile_lock is still None); self.pidfile.close() (AttributeError when
\* pidfile is still None)
lp_release ==
  /\ msub = "lp_release"
  /\ IF lockobj[mobj] = "None" THEN ReleaseRaise("AttributeError") /\ UNCHANGED fileobj
     ELSE IF lockobj[mobj] = "idle" THEN ReleaseRaise("Error") /\ UNCHANGED fileobj
     ELSE IF fileobj[mobj] = "None" THEN ReleaseRaise("AttributeError") /\ UNCHANGED fileobj
     ELSE /\ fileobj' = [fileobj EXCEPT ![mobj] = "closed"]
          /\ msub' = "lp_release_unlink"
          /\ UNCHANGED <<mpc, mexc>>
  /\ UNCHANGED <<has_pidfile, has_applock, fault, mobj, lockobj, pidOnDisk,
                 lkOnDisk, foreign, cmd, released, sinks>>
  /\ UNCHANGED nonMVars

\* release: if os.path.exists(self.pidfile_path): os.unlink(self.pidfile_path)
lp_release_unlink ==
  /\ msub = "lp_release_unlink"
  /\ pidOnDisk' = [pidOnDisk EXCEPT ![mobj] = "absent"]
  /\ msub' = "lp_release_unlinklock"
  /\ UNCHANGED <<has_pidfile, has_applock, fault, mpc, mobj, lockobj, fileobj,
                 lkOnDisk, foreign, cmd, mexc, released, sinks>>
  /\ UNCHANGED nonMVars

\* release: os.unlink(self.pidfile_lock_path); OSError when it is not there
lp_release_unlinklock ==
  /\ msub = "lp_release_unlinklock"
  /\ IF lkOnDisk[mobj]
       THEN /\ lkOnDisk' = [lkOnDisk EXCEPT ![mobj] = FALSE]
            /\ msub' = "lp_release_unlock"
            /\ UNCHANGED <<mpc, mexc>>
       ELSE ReleaseRaise("OSError") /\ UNCHANGED lkOnDisk
  /\ UNCHANGED <<has_pidfile, has_applock, fault, mobj, lockobj, fileobj,
                 pidOnDisk, foreign, cmd, released, sinks>>
  /\ UNCHANGED nonMVars

\* release: self.pidfile_lock.release(); back in main's finally, which goes
\* on to sys.exit() or lets the exception go on, or back in DaemonContext
lp_release_unlock ==
  /\ msub = "lp_release_unlock"
  /\ lockobj' = [lockobj EXCEPT ![mobj] = "idle"]
  /\ released' = Append(released, mobj)
  /\ msub' = "none"
  /\ mpc' = (IF mobj = "main" THEN "exited"
             ELSE IF mexc = "none" THEN "sysexit" ELSE "ctx_exit")
  /\ UNCHANGED <<has_pidfile, has_applock, fault, mobj, fileobj, pidOnDisk,
                 lkOnDisk, foreign, cmd, mexc, sinks>>
  /\ UNCHANGED nonMVars

\* sys.exit() as the last statement inside the with block
main_sysexit ==
  /\ mpc = "sysexit"
  /\ mexc' = "SystemExit"
  /\ mpc' = "ctx_exit"
  /\ UNCHANGED <<has_pidfile, has_applock, fault, msub, mobj, lockobj, fileobj,
                 pidOnDisk, lkOnDisk, foreign, cmd, released, sinks>>
  /\ UNCHANGED nonMVars

\* DaemonContext.__exit__: close() calls pidfile.__exit__, that is release(),
\* and the exception goes on out of main
main_ctx_exit ==
  /\ mpc = "ctx_exit"
  /\ IF has_pidfile
       THEN mpc' = "release" /\ msub' = "lp_release" /\ mobj' = "main"
       ELSE mpc' = "exited" /\ UNCHANGED <<msub, mobj>>
  /\ UNCHANGED <<has_pidfile, has_applock, fault, lockobj, fileobj, pidOnDisk,
                 lkOnDisk, foreign, cmd, mexc, released, sinks>>
  /\ UNCHANGED nonMVars

\* the launched command ends
cmd_exit ==
  /\ cmd = "running"
  /\ cmd' = "exited"
  /\ UNCHANGED <<has_pidfile, has_applock, fault, mpc, msub, mobj, lockobj,
                 fileobj, pidOnDisk, lkOnDisk, foreign, mexc, released, sinks>>
  /\ UNCHANGED nonMVars

\* the process that holds the app pidfile is killed: its lock is dropped, its
\* files stay
foreign_killed ==
  /\ foreign
  /\ foreign' = FALSE
  /\ UNCHANGED <<has_pidfile, has_applock, fault, mpc, msub, mobj, lockobj,
                 fileobj, pidOnDisk, lkOnDisk, cmd, mexc, released, sinks>>
  /\ UNCHANGED nonMVars

MNext ==
  \/ main_validate
  \/ main_open_out
  \/ main_open_err
  \/ main_enter
  \/ lp_open
  \/ lp_lock
  \/ lp_stale
  \/ lp_create
  \/ lp_write
  \/ main_popen
  \/ main_pump
  \/ main_wait
  \/ main_signal
  \/ main_finally
  \/ lp_release
  \/ lp_release_unlink
  \/ lp_release_unlinklock
  \/ lp_release_unlock
  \/ main_sysexit
  \/ main_ctx_exit
  \/ cmd_exit
  \/ foreign_killed

\* the component at rest, for the specifications of the other components
MParked ==
  /\ has_pidfile = FALSE
  /\ has_applock = FALSE
  /\ fault = "none"
  /\ mpc = "exited"
  /\ msub = "none"
  /\ mobj = "main"
  /\ lockobj = [f \in PidFiles |-> "None"]
  /\ fileobj = [f \in PidFiles |-> "None"]
  /\ pidOnDisk = [f \in PidFiles |-> "absent"]
  /\ lkOnDisk = [f \in PidFiles |-> FALSE]
  /\ foreign = FALSE
  /\ cmd = "none"
  /\ mexc = "none"
  /\ released = <<>>
  /\ sinks = {}

\* ----------------------------------------------------------- specification
PidNext ==
  \E p \in Procs :
    \/ \E app \in BOOLEAN : acquire_open(p, app)
    \/ acquire_lock(p)
    \/ acquire_exists(p)
    \/ acquire_check(p)
    \/ acquire_unlink(p)
    \/ acquire_create(p)
    \/ acquire_write(p)
    \/ main_run(p)
    \/ child_exit(p)
    \/ release_close(p)
    \/ release_exists(p)
    \/ release_unlink(p)
    \/ release_unlinklock(p)
    \/ release_unlock(p)
    \/ exit_failed(p)
    \/ crash(p)

\* the daemonizers on one pidfile path
InitPidLock == PidInit /\ FolParked /\ QParked /\ SubParked /\ KParked /\ MParked

SpecPidLock == InitPidLock /\ [][PidNext]_vars

\* one follower, its writer and its consumer
InitFollow == FolInit /\ PidInit /\ QParked /\ SubParked /\ KParked /\ MParked

SpecFollow == InitFollow /\ [][FolNext]_vars

\* the follower as scripts/stream.py runs it
SpecStream == InitFollow /\ [][StreamNext]_vars

\* one LineQueue, its producers, its consumer loop and the clock
InitQueue == QInit /\ PidInit /\ FolParked /\ SubParked /\ KParked /\ MParked

SpecQueue == InitQueue /\ [][QueueNext]_vars

\* the same with the consumer thread scheduled: queue.get returns after its
\* timeout at the latest, so a turn of the loop that is possible is taken
FairQueue == SpecQueue /\ WF_vars(ConsumerLoop)

\* one child, its pipes, its pumps and its supervisor, in a run during which
\* no log file is rotated (the two handlers then write alike) and with
\* run_subproc's default capture_output=True
InitSubproc ==
  /\ SubInit /\ log_handler = "watched" /\ (pmode = "line" => capture_output)
  /\ PidInit /\ FolParked /\ QParked /\ KParked /\ MParked

SpecSubproc == InitSubproc /\ [][SubNext]_vars

\* run_subproc(wait=True) with and without capture_output
InitCapture ==
  /\ SubInit /\ pmode = "line"
  /\ PidInit /\ FolParked /\ QParked /\ KParked /\ MParked

SpecCapture == InitCapture /\ [][CaptureNext]_vars

\* daemonize.main, its pumps and its log sinks, with rotation of the log files
InitSink ==
  /\ SubInit /\ pmode = "raw"
  /\ PidInit /\ FolParked /\ QParked /\ KParked /\ MParked

SpecSink == InitSink /\ [][SinkNext]_vars

\* proc.py called once on a process table that changes while it runs
InitProc == KInit /\ PidInit /\ FolParked /\ QParked /\ SubParked /\ MParked

SpecProc == InitProc /\ [][KNext]_vars

\* one run of main with its pidfiles, its command and its faults
InitMain == SubUnused /\ MInit /\ PidInit /\ FolParked /\ QParked /\ KParked

SpecMain == InitMain /\ [][MNext]_vars


\* the same under a scheduler that lets every thread and the child run: a
\* step that stays possible is taken in the end
FairSubproc ==
  /\ SpecSubproc
  /\ WF_vars(child_write)
  /\ \A s \in Streams : WF_vars(PumpThread(s))
  /\ WF_vars(sup_wait \/ sup_join)

\* the same, and the clock of main's wait_time loop runs out and the
\* interpreter ends the process as soon as it can
FairGrace ==
  /\ FairSubproc
  /\ WF_vars(sup_giveup)
  /\ WF_vars(sup_exit)

TypeOK ==
  /\ pidPath \in Procs \cup {0}
  /\ lkPath \in LockInodes \cup {0}
  /\ pidText \in {<<>>} \cup {str(p) : p \in Procs} \cup {str(ChildPid(p)) : p \in Procs}
  /\ pidPath = 0 => pidText = <<>>

\* ------------------------------------------------------------------ claims
\* C1: acquire on a pidfile that records the pid of a live process does not
\* succeed and leaves the pidfile as it is: once the stale check has found the
\* recorded pid alive, the call can only be about to fail or have failed; it
\* never gets past the unlink to create, write or hold the pidfile.
C1_LiveOwnerRefused ==
  \A p \in Procs : chk[p] = "alive" => pc[p] \in {"a_unlink", "failed"}

\* C2: at most one live process at a time is between a successful acquire
\* and its release, in every interleaving.
C2_AtMostOneHolder ==
  Cardinality({p \in Procs : Holding(p)}) <= 1

\* C3: a daemonizer started with --pidfile on a path that a running instance
\* holds is turned away: while the first instance still holds the pidfile the
\* second is not left waiting for the sidecar lock (its lock attempt returns,
\* so that it can exit with status 1), it never acquires the pidfile or
\* launches its command, and the pidfile keeps the first instance's pid.
C3_SecondInstanceRefused ==
  \A p \in Procs : \A q \in Procs \ {p} :
    (contended[p] /\ pidArg[p] = p /\ Holding(q)) =>
       /\ pc[p] = "a_lock" => ENABLED acquire_lock(p)
       /\ ~Holding(p)
       /\ pidText = str(pidArg[q])

\* C4: an acquire that finds the recorded pid dead, and that no other process
\* interleaves with, does not fail, and once it has returned the pidfile holds
\* exactly the decimal pid it was given.
C4_StaleReclaimed ==
  \A p \in Procs :
    (chk[p] = "stale" /\ soloProc = p) =>
       /\ pc[p] # "failed"
       /\ Holding(p) => (pidPath = p /\ pidText = str(pidArg[p]))

C4_Witness ==
  \E p \in Procs :
    /\ chk[p] = "stale" /\ soloProc = p /\ pc[p] = "held"
    /\ pidText = str(pidArg[p])

\* C5: an acquire/release round that no other process interleaves with leaves
\* neither the pidfile nor the sidecar lock file on disk, and an acquire that
\* starts on a free path and runs without interleaving is never blocked on the
\* sidecar lock and never fails; this holds round after round.
C5_RoundTrip ==
  \A p \in Procs :
    soloProc = p =>
      /\ pc[p] = "exit0" => (pidPath = 0 /\ lkPath = 0)
      /\ freeStart => /\ pc[p] # "failed"
                      /\ pc[p] = "a_lock" => LockFree(p, lkIno[p])

C5_Witness ==
  \E p \in Procs :
    /\ soloProc = p /\ freeStart /\ pc[p] = "exit0"
    /\ \E q \in Procs \ {p} : pc[q] = "exit0"
    /\ pidPath = 0 /\ lkPath = 0

\* C6: while a process is between a successful acquire(pid) and its release,
\* the pidfile exists and holds exactly the decimal pid given to acquire.
C6_PidfileMatchesOwner ==
  \A p \in Procs : Holding(p) => (pidPath # 0 /\ pidText = str(pidArg[p]))

\* ------------------------------------------------------- follower claims
RECURSIVE Lines(_)
\* the complete lines of a text, each without its newline, in order
Lines(s) ==
  LET n == FirstNewline(s)
  IN IF n = 0 THEN <<>>
     ELSE <<SubSeq(s, 1, n - 1)>> \o Lines(SubSeq(s, n + 1, Len(s)))

RECURSIVE Rest(_)
\* what follows the last newline of a text: the line that is not complete yet
Rest(s) ==
  LET n == FirstNewline(s)
  IN IF n = 0 THEN s ELSE Rest(SubSeq(s, n + 1, Len(s)))

IsSuffix(a, b) == Len(a) <= Len(b) /\ SubSeq(b, Len(b) - Len(a) + 1, Len(b)) = a

\* C7: a line follower opened with tail_only = False on a file that is only
\* appended to has, at every moment, yielded exactly the complete lines of what
\* it has read, in order, each once and without newline, and holds the
\* unterminated rest in its buffer; when a read finds nothing more, it has
\* yielded every complete line of the file.
C7_LinesInOrder ==
  (fmode = "line" /\ ~tail_only /\ disturbed = "no" /\ fpc # "closed") =>
     /\ out = Lines(SubSeq(file, 1, pos))
     /\ join(buf) = Rest(SubSeq(file, 1, pos))
     /\ \A i \in 1..Len(out) : \A k \in 1..Len(out[i]) : ~IsNewline(out[i][k])
     /\ quiet => out = Lines(file)

C7_Witness ==
  /\ fmode = "line" /\ ~tail_only /\ disturbed = "no"
  /\ Len(out) >= 1 /\ Len(buf) >= 2

\* C8: with tail_only = True no byte that was in the file when it was opened
\* is part of a yielded item, in line mode and in byte mode.
C8_TailOnlySkipsOld ==
  tail_only => \A i \in 1..Len(out) : \A k \in 1..Len(out[i]) : ~out[i][k].pre

C8_Witness ==
  /\ tail_only
  /\ \E k \in 1..Len(file) : file[k].pre
  /\ \E i \in 1..Len(out) : out[i] # <<>>

\* C9 as stated: once finish is set, the very next turn of the follow loop
\* ends the iteration.
C9_EndsAtNextPoll ==
  [][(finish /\ fpc = "read" /\ (pos' # pos \/ fpc' # fpc)) => fpc' = "stopped"]_vars

\* C9 as amended: the iteration ends exactly in a turn of the loop whose read
\* finds no data while finish is set: never otherwise, and always then.
C9_EndsAtFirstEmptyPoll ==
  [][/\ (fpc' = "stopped" /\ fpc # "stopped") =>
          (fpc = "read" /\ finish /\ Unread(file, pos) = <<>>)
     /\ (fpc = "read" /\ fpc' # fpc /\ finish) => fpc' = "stopped"]_vars

C9_Witness ==
  fpc = "stopped" /\ finish /\ lateRead

\* C10: after the followed file was truncated or replaced at its path, a line
\* follower that has just polled and found nothing has yielded, last and in
\* order, every complete line appended at the path since.
C10_FollowsAcrossRotation ==
  (fmode = "line" /\ disturbed # "no" /\ quiet) => IsSuffix(Lines(PathFile), out)

\* where the follower started reading: the end of what the file held when it
\* was opened (tail_only) or its beginning
StartPos == IF tail_only THEN Cardinality({k \in 1..Len(file) : file[k].pre}) ELSE 0

\* C11: a byte follower on a file that is only appended to has, at every
\* moment, yielded chunks that are each non-empty and at most chunk_size bytes
\* long and whose concatenation is exactly the bytes of the file from the start
\* position up to the read offset, in order and once each (nothing that was
\* read is held back); when a read finds nothing more, every byte appended
\* since the start has been yielded.
C11_ChunksCoverAppended ==
  (fmode = "byte" /\ disturbed = "no" /\ fpc # "closed") =>
     /\ \A i \in 1..Len(out) : Len(out[i]) >= 1 /\ Len(out[i]) <= chunk_size
     /\ join(out) = SubSeq(file, StartPos + 1, pos)
     /\ quiet => join(out) = SubSeq(file, StartPos + 1, Len(file))

C11_Witness ==
  /\ fmode = "byte" /\ disturbed = "no" /\ quiet
  /\ chunk_size = MaxChunk
  /\ Len(out) >= 2
  /\ \E i \in 1..Len(out) : Len(out[i]) = chunk_size
  /\ \E i \in 1..Len(out) : Len(out[i]) < chunk_size

\* --------------------------------------------------- rate limiter claims
\* the values of a sequence of [v, t, w] records
Vals(s) == [i \in 1..Len(s) |-> s[i].v]

\* the records of s that fall in the first period after the generator started
FirstPeriod(s) ==
  LET In(r) == r.t - 0 < rate_period
  IN SelectSeq(s, In)

\* the records of s that belong to window w
InWin(s, w) ==
  LET In(r) == r.w = w
  IN SelectSeq(s, In)

\* when window w began: at the generator's start (w = 0), else when the value
\* that restarted the window arrived
WinStart(w) == IF w = 0 THEN 0 ELSE InWin(arr, w)[1].t

\* what a window that received the values a must put out under limit L
Expected(a, L) ==
  IF Len(a) <= L THEN Vals(a)
  ELSE Vals(SubSeq(a, 1, L)) \o <<RATE_LIMIT_SENTINEL>>

C13_AtMostLimitPerRollingPeriod ==
  limited =>
    \A i \in 1..Len(fwd) :
      Cardinality({j \in 1..Len(fwd) :
                     /\ fwd[j].v # RATE_LIMIT_SENTINEL
                     /\ fwd[j].t >= fwd[i].t
                     /\ fwd[j].t - fwd[i].t < rate_period}) <= rate_limit

\* C14: every window (the first, and each one begun by a restart) puts out
\* exactly the first rate_limit of its values, then one marker in place of
\* value rate_limit + 1, then nothing; count and start are restarted exactly
\* by a value that arrives rate_period or more after the window began.
C14_EveryWindow ==
  limited =>
    /\ \A w \in 0..win : Vals(InWin(fwd, w)) = Expected(InWin(arr, w), rate_limit)
    /\ count = Len(InWin(arr, win)) - 1
    /\ start = WinStart(win)
    /\ \A i \in 1..Len(arr) : arr[i].t - WinStart(arr[i].w) < rate_period
    /\ \A i \in 2..Len(arr) :
         arr[i].w # arr[i-1].w => arr[i].t - WinStart(arr[i-1].w) >= rate_period

\* C15: without rate limiting the consumer is handed the pushed lines
\* themselves, each once and in push order, and its loop does not end while a
\* pushed line is still in the queue.
C15_NoLineLost ==
  [][~limited =>
       /\ Vals(fwd') = [i \in 1..Len(fwd') |-> i]
       /\ (lpc' = "done" /\ lpc # "done") => queue = <<>>]_vars

\* ------------------------------------------------- pump and sink claims
\* C16: a raw pump hands each chunk it reads, of 1 to MaxRead bytes, to the
\* sink as it is, once and in read order, so that the sink calls followed by
\* what is still in the pipe are the bytes the child wrote; its flow returns
\* in the turn whose read finds the pipe empty at end-of-stream, and in no
\* other turn (a turn that read data calls the sink and goes on).
C16_RawPump ==
  /\ [](pmode = "raw" =>
          \A s \in Streams :
            /\ \A i \in 1..Len(calls[s]) :
                 Len(calls[s][i]) >= 1 /\ Len(calls[s][i]) <= MaxRead
            /\ concat(calls[s]) \o pipe[s] = written[s]
            /\ ppc[s] = "done" => concat(calls[s]) = written[s])
  /\ [][pmode = "raw" =>
          \A s \in Streams :
            /\ (ppc[s] = "run" /\ ppc'[s] = "done") =>
                  (pipe[s] = <<>> /\ cpc = "exited" /\ calls'[s] = calls[s])
            /\ calls'[s] # calls[s] =>
                  (ppc'[s] = "run" /\ Len(calls'[s]) = Len(calls[s]) + 1)]_vars

C16_Witness ==
  /\ pmode = "raw"
  /\ \E s \in Streams :
       /\ ppc[s] = "done"
       /\ Len(calls[s]) >= 2
       /\ \E i \in 1..Len(calls[s]) : Len(calls[s][i]) = MaxRead
       /\ concat(calls[s]) = written[s]

RECURSIVE RawLines(_)
\* the lines readline returns for a byte string: each ends with its newline,
\* except a last one that the stream ended without
RawLines(s) ==
  LET n == Newline(s)
  IN IF s = <<>> THEN <<>>
     ELSE IF n = 0 THEN <<s>>
     ELSE <<SubSeq(s, 1, n)>> \o RawLines(SubSeq(s, n + 1, Len(s)))

\* a line without its trailing newline, everything else kept
Chomp(line) ==
  IF line # <<>> /\ line[Len(line)] = "\n"
    THEN SubSeq(line, 1, Len(line) - 1)
    ELSE line

\* the bytes of stream s that the line pump has turned into sink calls
Consumed(s) == SubSeq(written[s], 1, Len(written[s]) - Len(pipe[s]) - Len(rbuf[s]))

\* C17: a line pump has called the sink, for each line it has read and in
\* input order, with prefix + the line less its trailing newline only +
\* postfix + one newline.
C17_LinesDecorated ==
  pmode = "line" =>
    \A s \in Streams :
      calls[s] = [i \in 1..Len(RawLines(Consumed(s))) |->
                    prefix \o Chomp(RawLines(Consumed(s))[i]) \o postfix \o <<"\n">>]

\* C18: with one pump per pipe, a write the child is in always completes,
\* and once the child has exited every pump reaches end-of-stream and returns
\* and the supervisor gets past its wait and its join.
C18_NoPipeDeadlock ==
  /\ (cpc = "writing") ~> (cpc # "writing")
  /\ (cpc = "exited") ~> (\A s \in Streams : ppc[s] # "run")
  /\ (cpc = "exited") ~> (spc \in {"done", "exited"})

\* the child is held in a write to a full pipe while the other pump is
\* waiting on its own, empty pipe
C18_Witness ==
  /\ ~merged
  /\ cpc = "writing"
  /\ Len(pipe[pending[1]]) = PipeCap
  /\ \A s \in Streams : ppc[s] = "run"
  /\ \E s \in Streams : pipe[s] = <<>>

\* C19: with the default format the log file holds the records handed to the
\* sink byte for byte, one after the other, with no newline added or removed,
\* so that it is at every moment a prefix of what the child wrote.
C19_Verbatim ==
  (pmode = "raw" /\ log_format = "plain") =>
    \A s \in Streams :
      /\ logf[s] = concat(calls[s])
      /\ logf[s] \o pipe[s] = written[s]

C19_Witness ==
  /\ pmode = "raw" /\ log_format = "plain"
  /\ \E s \in Streams :
       /\ \E i \in 1..Len(calls[s]) : calls[s][i][Len(calls[s][i])] = "\n"
       /\ \E i \in 1..Len(calls[s]) : calls[s][i][Len(calls[s][i])] # "\n"
       /\ logf[s] = written[s]

\* C20 as stated: every record is in the file ended by exactly one newline,
\* whether or not it came with one.
C20_OneNewlinePerRecord ==
  pmode = "raw" =>
    \A s \in Streams :
      logf[s] = concat([i \in 1..Len(calls[s]) |->
                          Format(Chomp(calls[s][i])) \o <<"\n">>])

\* C20 as amended: the sink takes off exactly the one newline the logging
\* layer appends and adds none: every record is in the file as the formatter
\* made it, so the file ends with a newline exactly when the last record did.
C20_TrimsOnlyAddedNewline ==
  pmode = "raw" =>
    \A s \in Streams :
      /\ logf[s] = concat([i \in 1..Len(calls[s]) |-> Format(calls[s][i])])
      /\ calls[s] # <<>> =>
           LET last == calls[s][Len(calls[s])]
           IN (logf[s][Len(logf[s])] = "\n") <=> (last[Len(last)] = "\n")

C20_Witness ==
  /\ pmode = "raw" /\ log_format = "stamped"
  /\ \E s \in Streams :
       /\ Len(calls[s]) >= 2
       /\ calls[s][1][Len(calls[s][1])] # "\n"
       /\ calls[s][2][Len(calls[s][2])] = "\n"
       /\ logf[s] = <<"T">> \o calls[s][1] \o <<"T">> \o calls[s][2]

\* C21: when the daemonizer process has ended, each log file written with the
\* default format holds exactly the bytes the child wrote to that stream,
\* every byte once and in order, with no newline added and none missing; the
\* child has exited by then and nothing it wrote is left in a pipe.
C21_LogHoldsOutput ==
  (pmode = "raw" /\ log_format = "plain" /\ spc = "exited") =>
    /\ cpc = "exited"
    /\ \A s \in Streams : logf[s] = written[s] /\ pipe[s] = <<>>

C21_Witness ==
  /\ pmode = "raw" /\ log_format = "plain" /\ spc = "exited"
  /\ Len(written["out"]) >= 2
  /\ written["out"][Len(written["out"])] = "\n"
  /\ written["out"][1] # "\n"
  /\ logf["out"] = written["out"]

\* how often pid p is in the list t
Count(t, p) == Cardinality({i \in 1..Len(t) : t[i] = p})

\* C22: get_process_tree(pid) raises nothing; for a pid that does not exist
\* it returns the empty list; what it returns for a process that exists has
\* that process first and after it every descendant the process has at that
\* moment exactly once, and nothing else.
C22_TreeOrEmpty ==
  /\ [](op = "tree" =>
          /\ kpc # "raised"
          /\ (kpc = "returned" /\ ~existed) => tree = <<>>)
  /\ [][(op = "tree" /\ kpc = "gpt_children" /\ kpc' = "returned") =>
          /\ tree'[1] = root
          /\ \A p \in Pids :
               Count(Tail(tree'), p) = (IF p \in alive /\ Anc(p, root) THEN 1 ELSE 0)]_vars

\* the part of C22 that holds: what get_process_tree returns, when it returns
C22_ReturnedTree ==
  /\ [](op = "tree" /\ kpc = "returned" /\ ~existed => tree = <<>>)
  /\ [][(op = "tree" /\ kpc = "gpt_children" /\ kpc' = "returned") =>
          /\ tree'[1] = root
          /\ \A p \in Pids :
               Count(Tail(tree'), p) = (IF p \in alive /\ Anc(p, root) THEN 1 ELSE 0)]_vars

\* get_process_tree has raised: its process ended between the two psutil calls
C22_Raised == op = "tree" /\ kpc = "raised"

\* what _signal_processes did, in order, in the phase that sends sig
Entries(sig) == SelectSeq(klog, LAMBDA e : e.sig = sig)

\* the phase that sends sig is still being left
InPhase(sig) == todo # <<>> /\ Head(todo) = sig /\ kpc \in {"check", "call"}

\* C23: _signal_processes goes through its input list in order and deals with
\* every process of it exactly once: a process that is not running gets no
\* delivery, a running one gets one attempt; an attempt that fails, because the
\* process has gone or for any other reason, does not keep the processes after
\* it from their attempt, and nothing is raised to the caller.
C23_EveryRunningProcessOnce ==
  /\ [](\A k \in 1..Len(snaps) :
          LET E == Entries(snaps[k].sig)
              used == snaps[k].used
          IN /\ Len(E) <= Len(used)
             /\ \A i \in 1..Len(E) : E[i].pid = used[i]
             /\ Len(E) = (IF InPhase(snaps[k].sig) THEN idx - 1 ELSE Len(used)))
  /\ [][/\ kpc \in {"check", "call"} => err' = err
        /\ klog' # klog =>
             LET e == klog'[Len(klog')]
             IN /\ klog' = Append(klog, e)
                /\ e.pid = procs[idx]
                /\ e.res \in (IF e.pid \in alive THEN {"ok", "error"} ELSE {"skip", "gone"})
                /\ kpc = "check" <=> e.res = "skip"]_vars

\* a list has been gone through in which a delivery failed and a later one succeeded
C23_Witness ==
  /\ kpc = "finished"
  /\ \E i, j \in 1..Len(klog) :
       /\ i < j
       /\ klog[i].sig = klog[j].sig
       /\ klog[i].res \in {"gone", "error"}
       /\ klog[j].res = "ok"

\* C24: when a signalling(proc, sig) block (not recursive) is left, by the end
\* of its body or by an exception of it, the process that proc.pid names at
\* that moment is looked up and, if it is running, gets the signal once; no
\* other process gets anything.  The exception of the body, and nothing else,
\* reaches the caller after that, and the block was given proc itself.
C24_SignalOnExit ==
  /\ []((op = "signalling" /\ ~recursive) =>
          /\ kpc # "idle" => asProc = "proc"
          /\ kpc = "finished" =>
               /\ Len(snaps) = 1
               /\ Len(klog) = Len(snaps[1].used)
               /\ Len(klog) <= 1
               /\ \A i \in 1..Len(klog) : klog[i].pid = tpid /\ klog[i].sig = "terminate"
               /\ err = (IF bodyRaised THEN "Body" ELSE "none"))
  /\ [][(op = "signalling" /\ ~recursive) =>
          /\ (kpc = "resolve" /\ kpc' # kpc /\ tpid \in alive) =>
               (kpc' = "check" /\ procs' = <<tpid>>)
          /\ (kpc = "call" /\ kpc' # kpc /\ tpid \in alive /\ tpid \notin denied) =>
               klog' = <<[sig |-> "terminate", pid |-> tpid, res |-> "ok"]>>]_vars

\* a block whose body moved proc.pid and then raised has signalled the new pid
C24_Witness ==
  /\ op = "signalling" /\ ~recursive /\ kpc = "finished"
  /\ bodyRaised /\ err = "Body"
  /\ tpid # 1
  /\ klog = <<[sig |-> "terminate", pid |-> tpid, res |-> "ok"]>>

\* the signals that reached process p, in the order they were delivered
Delivered(p) ==
  LET E == SelectSeq(klog, LAMBDA e : e.pid = p /\ e.res = "ok")
  IN [i \in 1..Len(E) |-> E[i].sig]

\* C25: when a dead(proc) block (not recursive) is left, also by an exception
\* of its body, the process is looked up from proc.pid twice, once for
\* terminate and then once for kill; it gets terminate at most once and kill
\* at most once and never kill before terminate, and a process that is running
\* and takes signals all the while gets exactly terminate and then kill.
C25_TerminateThenKill ==
  (op = "dead" /\ ~recursive) =>
    /\ \A p \in Pids :
         /\ Delivered(p) \in {<<>>, <<"terminate">>, <<"terminate", "kill">>}
         /\ p # tpid => Delivered(p) = <<>>
    /\ \A k \in 1..Len(snaps) :
         /\ snaps[k].sig = <<"terminate", "kill">>[k]
         /\ snaps[k].used \in {<<>>, <<tpid>>}
    /\ kpc = "finished" =>
         /\ Len(snaps) = 2
         /\ err = (IF bodyRaised THEN "Body" ELSE "none")
         /\ (tpid \in alive /\ tpid \notin denied) =>
              Delivered(tpid) = <<"terminate", "kill">>

\* a dead block whose body raised has sent terminate and then kill
C25_Witness ==
  /\ op = "dead" /\ ~recursive /\ kpc = "finished" /\ bodyRaised
  /\ klog = <<[sig |-> "terminate", pid |-> tpid, res |-> "ok"],
              [sig |-> "kill", pid |-> tpid, res |-> "ok"]>>

\* the processes _signal_processes was given in the phase that sends sig
Signalled(sig) == {Entries(sig)[i].pid : i \in 1..Len(Entries(sig))}

\* C26: when a recursive dead(proc) block has been left, the processes gone
\* through in the kill phase are those of the tree found in the terminate
\* phase together with those of the tree found in the kill phase, and each of
\* them that is still running and takes signals has got kill.
C26_KillsUnionOfSnapshots ==
  (op = "dead" /\ recursive /\ kpc = "finished") =>
    /\ Len(snaps) = 2
    /\ Signalled("kill") = snaps[1].fresh \cup snaps[2].fresh
    /\ \A p \in snaps[1].fresh \cup snaps[2].fresh :
         (p \in alive /\ p \notin denied) => \E i \in 1..Len(Delivered(p)) : Delivered(p)[i] = "kill"

\* the same where the kill phase did get its tree
C26_UnionWhenTreeTaken ==
  (op = "dead" /\ recursive /\ kpc = "finished" /\ Len(snaps) = 2 /\ snaps[2].ran) =>
    /\ Signalled("kill") = snaps[1].fresh \cup snaps[2].fresh
    /\ \A p \in snaps[1].fresh \cup snaps[2].fresh :
         (p \in alive /\ p \notin denied) => \E i \in 1..Len(Delivered(p)) : Delivered(p)[i] = "kill"

\* the root ended while the kill phase was taking its tree: the descendants
\* found in the terminate phase are running and have not been sent kill
C26_Abandoned ==
  /\ op = "dead" /\ recursive /\ kpc = "finished"
  /\ Len(snaps) = 2 /\ ~snaps[2].ran
  /\ \E p \in snaps[1].fresh : p \in alive /\ Signalled("kill") = {}

\* ------------------------------------------------------------ main claims
\* acquire on pidfile f has returned True
Acquired(f) == fileobj[f] # "None" /\ ~(f = "app" /\ fault = "write")

\* C27: release on a LockedPidFile whose acquire has not returned True raises
\* an error and leaves the pidfile, the sidecar lock file and every lock as
\* they are; and whenever release gives up the sidecar lock, the pidfile has
\* been closed and is gone from the disk.
C27_ReleaseGuarded ==
  /\ [][(msub = "lp_release" /\ msub' # msub /\ ~Acquired(mobj)) =>
          /\ msub' = "none"
          /\ mexc' \in {"Error", "AttributeError"}
          /\ UNCHANGED <<pidOnDisk, lkOnDisk, lockobj, fileobj, foreign>>]_vars
  /\ [][released' # released =>
          (fileobj[mobj] = "closed" /\ pidOnDisk[mobj] = "absent")]_vars

\* release went ahead although acquire had raised: the files are gone, the
\* lock is given up and no error was signalled
C27_ReleasedUnacquired ==
  /\ ~Acquired("app")
  /\ released # <<>> /\ released[1] = "app"
  /\ pidOnDisk["app"] = "absent" /\ ~lkOnDisk["app"]
  /\ mexc = "IOError"

\* C28: when the acquire of the app pidfile fails after the command has been
\* launched, main fails and the command is not running any more once main
\* has given up.
C28_ChildNotLeftRunning ==
  (fault \in {"lockopen", "create", "write"} /\ mpc = "exited") =>
    /\ mexc # "SystemExit"
    /\ cmd = "exited"

\* C29: once main is past the launch and has exited, by the end of the
\* command or by an exception, no pidfile written by this run is on disk; an
\* app pidfile that was acquired has been released, its sidecar file removed,
\* and that before the main pidfile was released.
C29_AppReleasedBeforeMain ==
  (mpc = "exited" /\ (has_pidfile => Acquired("main"))) =>
    /\ \A f \in PidFiles : pidOnDisk[f] # "own"
    /\ has_pidfile => (released # <<>> /\ released[Len(released)] = "main"
                       /\ pidOnDisk["main"] = "absent" /\ ~lkOnDisk["main"])
    /\ Acquired("app") =>
         /\ released[1] = "app"
         /\ released = (IF has_pidfile THEN <<"app", "main">> ELSE <<"app">>)
         /\ pidOnDisk["app"] = "absent" /\ ~lkOnDisk["app"]

\* main has left through an exception of the pumps with both pidfiles released
C29_Witness ==
  /\ mpc = "exited" /\ fault = "pump" /\ mexc = "ThreadError"
  /\ released = <<"app", "main">>
  /\ \A f \in PidFiles : pidOnDisk[f] = "absent" /\ ~lkOnDisk[f]

\* C30: when the command cannot be launched, main ends with the OSError of
\* the launch and has released every pidfile lock it had acquired, with and
\* without an app pidfile.
C30_SpawnErrorSurfaces ==
  (fault = "spawn" /\ mpc = "exited") =>
    /\ mexc = "OSError"
    /\ \A f \in PidFiles : lockobj[f] # "acquired" /\ pidOnDisk[f] # "own"

\* the same for a run without --app-pidfile
C30_WithoutAppPidfile ==
  (fault = "spawn" /\ mpc = "exited" /\ ~has_applock) =>
    /\ mexc = "OSError"
    /\ \A f \in PidFiles : lockobj[f] # "acquired" /\ pidOnDisk[f] # "own"

\* ------------------------------------------------------- later claims
\* C31: once the child of the daemonizer has exited, the supervisor gets past
\* its wait for the pumps and its process ends, also when a pump never reaches
\* end-of-stream.
C31_SupervisorCompletes ==
  (pmode = "raw" /\ cpc \in {"exited", "orphaned"}) ~> (spc = "exited")

\* the part of C31 that holds: the supervisor gets past the wait for the
\* pumps, to the release of its locks and to sys.exit()
C31_PastTheJoin ==
  (pmode = "raw" /\ cpc \in {"exited", "orphaned"}) ~> (spc \in {"done", "exited"})

\* main is past sys.exit() and the process is still there: a pump thread sits
\* in a read on a pipe that a grandchild holds open
C31_Lingering ==
  /\ pmode = "raw" /\ spc = "done" /\ cpc = "orphaned"
  /\ \E s \in Streams : ppc[s] = "run" /\ pipe[s] = <<>>
  /\ ~ENABLED sup_exit

\* C32: main has checked --when and made the log handler of stdout and, unless
\* stderr goes to the same log, of stderr before it reaches the DaemonContext:
\* from there on the handlers exist, and a run in which the check or the
\* opening of a log fails never detaches, touches no pidfile and launches
\* nothing.
C32_LogsBeforeDetach ==
  /\ (mpc \notin {"validate", "open_out", "open_err"} /\ fault \notin EarlyFaults) =>
       sinks = (IF merged THEN {"out"} ELSE {"out", "err"})
  /\ fault \in EarlyFaults =>
       /\ mpc \in {"validate", "open_out", "open_err", "exited"}
       /\ mpc = "exited" => mexc \in {"SystemExit(1)", "IOError"}
       /\ cmd = "none"
       /\ released = <<>>
       /\ \A f \in PidFiles :
            lockobj[f] = "None" /\ fileobj[f] = "None" /\ pidOnDisk[f] # "own"

\* the stderr log could not be opened: main has ended before the DaemonContext
C32_Witness ==
  /\ fault = "errlog" /\ mpc = "exited" /\ mexc = "IOError"
  /\ sinks = {"out"}
  /\ cmd = "none"
  /\ has_pidfile /\ lockobj["main"] = "None"

\* the text of the file at the path of the log of stream s
CurrentFile(s) ==
  IF cut[s] = <<>> THEN logf[s]
  ELSE SubSeq(logf[s], cut[s][Len(cut[s])] + 1, Len(logf[s]))

C34_PartialLineNotYielded ==
  (fmode = "line" /\ fpc = "stopped" /\ disturbed = "no") =>
     LET seen == SubSeq(file, StartPos + 1, pos)
     IN /\ out = Lines(seen)
        /\ join(buf) = Rest(seen)
        /\ Len(out) = Cardinality({k \in 1..Len(seen) : IsNewline(seen[k])})
        /\ ~ENABLED line_next

\* the iteration has ended after a complete line, with a partial line read
C34_Witness ==
  /\ fmode = "line" /\ fpc = "stopped" /\ disturbed = "no"
  /\ Len(out) >= 1
  /\ buf # <<>>
  /\ pos = Len(file)

\* C37: when the iteration of a line follower ends, on a file that was only
\* appended to, the items yielded are the complete lines of the file from
\* where the follower started, in order: no line that was complete in the
\* file when finish was set, or became complete before the end, is missing.
C37_CompleteLinesYielded ==
  [][(fmode = "line" /\ disturbed = "no" /\ fpc # "stopped" /\ fpc' = "stopped") =>
       out' = Lines(SubSeq(file, StartPos + 1, Len(file)))]_vars

\* the drain of scripts/stream.py has ended and a line of the file is missing
\* from what was yielded
C37_LineLost ==
  /\ fmode = "line" /\ disturbed = "no" /\ ~tail_only
  /\ fpc = "stopped" /\ pos = Len(file)
  /\ \E i \in 1..Len(Lines(file)) : Lines(file)[i] # <<>> /\ out[i] = <<>>

\* C35: once run_subproc (wait=True) has returned, both pump threads have
\* finished and every line the child wrote has gone decorated to the sink;
\* with capture_output the list returned for a stream holds the lines of
\* that stream as readline returned them, newline and all, in order and
\* once each, and without capture_output both lists are empty.
C35_CaptureComplete ==
  (pmode = "line" /\ spc = "done") =>
     \A s \in Streams :
       /\ ppc[s] = "done"
       /\ calls[s] = [i \in 1..Len(RawLines(written[s])) |->
                        Decorate(RawLines(written[s])[i])]
       /\ pbuf[s] = (IF capture_output THEN RawLines(written[s]) ELSE <<>>)

\* run_subproc has returned two captured lines of one stream, a line of the
\* other one, and none of them is what went to the sink
C35_Witness ==
  /\ pmode = "line" /\ spc = "done" /\ capture_output
  /\ \E s \in Streams : Len(pbuf[s]) >= 2 /\ concat(pbuf[s]) = written[s]
  /\ \A s \in Streams : pbuf[s] # <<>> /\ pbuf[s] # calls[s]

\* the same call without capture_output: lines went to the sink, none was kept
C35_Uncaptured ==
  /\ pmode = "line" /\ spc = "done" /\ ~capture_output
  /\ \E s \in Streams : Len(calls[s]) >= 2
  /\ \A s \in Streams : pbuf[s] = <<>>

\* the values of a sequence of yields
Values(ys) == [i \in 1..Len(ys) |-> ys[i].v]

\* the lines among the values of a sequence, in order
RealLines(vs) ==
  LET IsLine(v) == v >= 1
  IN SelectSeq(vs, IsLine)

\* C36: what a QueueChain has handed to its out_queue is what its in_queue's
\* generator has yielded, with every real line unchanged and in its place;
\* with a label each marker has become the label line, without a label the
\* markers are left out; the marker object itself is never handed on.
C36_ChainForwards ==
  /\ RealLines(out_queue) = RealLines(Values(fwd))
  /\ \A i \in 1..Len(out_queue) : out_queue[i] # RATE_LIMIT_SENTINEL
  /\ rate_limit_line = <<>> => out_queue = RealLines(Values(fwd))
  /\ rate_limit_line # <<>> =>
       /\ Len(out_queue) = Len(fwd)
       /\ \A i \in 1..Len(fwd) :
            IF fwd[i].v = RATE_LIMIT_SENTINEL
              THEN out_queue[i] = rate_limit_line[1]
              ELSE out_queue[i] = fwd[i].v

\* a chain with a label has handed on a line, the label and a later line
C36_Witness ==
  /\ limited /\ rate_limit_line = <<ELISION_LINE>>
  /\ \E i, j, k \in 1..Len(out_queue) :
       /\ i < j /\ j < k
       /\ out_queue[i] >= 1 /\ out_queue[j] = ELISION_LINE /\ out_queue[k] > out_queue[i]

\* a chain without a label has left a marker out between two lines
C36_Dropped ==
  /\ limited /\ rate_limit_line = <<>>
  /\ Len(out_queue) >= 2
  /\ \E i \in 1..Len(fwd) : fwd[i].v = RATE_LIMIT_SENTINEL /\ 1 < i /\ i < Len(fwd)

\* C39: once the stop event is set a consumer loop ends, whatever its queue
\* holds, whatever the limiter is doing and whether or not lines are still
\* pushed: the turn it is in takes at most one more item and brings it to
\* the while test, the while test ends the loop, and an ended loop stays
\* ended.
C39_StopEndsLoop ==
  /\ stop ~> (lpc = "done")
  /\ [][/\ (stop /\ lpc = "check" /\ lpc' # lpc) => lpc' = "done"
        /\ (stop /\ lpc = "get" /\ lpc' # lpc) =>
              (lpc' = "check" /\ Len(queue') >= Len(queue) - 1)
        /\ lpc = "done" => lpc' = "done"]_vars

\* a loop has ended with lines in its queue while its limiter was dropping
C39_Witness ==
  /\ stop /\ lpc = "done"
  /\ limited /\ count > rate_limit /\ now - start < rate_period
  /\ queue # <<>>
  /\ pushed < MaxPush

\* C38: when the acquire of the app pidfile has raised (main is on its way
\* into the finally), the LockedPidFile holds no sidecar lock and no pidfile
\* made by this acquire is on disk; and none is once main has exited.
C38_FailedAcquireLeavesNothing ==
  /\ (fault \in {"lockopen", "create", "write"} /\ mpc = "finally") =>
        /\ lockobj["app"] # "acquired"
        /\ pidOnDisk["app"] # "own"
  /\ (fault \in {"lockopen", "create", "write"} /\ mpc = "exited") =>
        pidOnDisk["app"] # "own"

\* acquire has raised at the creation of the pidfile and the sidecar lock is
\* still held; release was tried in the finally and has raised as well
C38_LockLeftHeld ==
  /\ fault = "create" /\ mpc = "exited"
  /\ lockobj["app"] = "acquired" /\ lkOnDisk["app"]
  /\ mexc = "AttributeError"

\* every other daemonizer on the path has ended or was killed, one at least
\* was killed, and p has run alone since it started
AfterCrash(p) ==
  /\ soloProc = p
  /\ \E q \in Procs \ {p} : pc[q] = "killed"
  /\ \A q \in Procs \ {p} : ~Running(q)

\* C40: an acquire that finds a pidfile without a valid decimal pid in it, and
\* that no other process interleaves with, does not fail, and once it has
\* returned the pidfile is the one it created and holds exactly the pid it
\* was given; and whatever a killed daemonizer has left on disk, an acquire
\* that starts afterwards is not kept waiting for the sidecar lock, does not
\* fail, and ends with exactly its pid in the pidfile.
C40_CrashRecoverable ==
  \A p \in Procs :
    /\ (chk[p] = "invalid" /\ soloProc = p) =>
          /\ pc[p] # "failed"
          /\ pc[p] = "a_create" => pidPath = 0
          /\ Holding(p) => (pidPath = p /\ pidText = str(pidArg[p]))
    /\ AfterCrash(p) =>
          /\ pc[p] # "failed"
          /\ pc[p] = "a_lock" => LockFree(p, lkIno[p])
          /\ Holding(p) => (pidPath = p /\ pidText = str(pidArg[p]))

\* the previous owner was killed between creating and writing the pidfile;
\* the next acquire found it empty and holds the pidfile with its own pid
C40_Witness ==
  \E p \in Procs :
    /\ chk[p] = "invalid" /\ AfterCrash(p) /\ pc[p] = "held"
    /\ pidPath = p /\ pidText = str(pidArg[p])


============================================================================
